---- MODULE Spec2Model ----
(***************************************************************************)
(* The UniRep Synchronizer (packages/core/src/Synchronizer.ts): a daemon   *)
(* that tails the event log of the UniRep contract and mirrors it in a     *)
(* local database, one database transaction per log.                       *)
(*                                                                         *)
(* Hashes are modelled as injective encodings into sequences of integers   *)
(* (collision resistance): hashLeftRight(a, b) is <<a>> \o b, the root of  *)
(* an incremental Merkle tree is the sequence of its leaves, the root of a *)
(* sparse Merkle tree is the set of its non-default (key, value) leaves.   *)
(***************************************************************************)
EXTENDS Integers, Sequences, FiniteSets, TLC

VARIABLES
    chain,            \* the logs the contract has emitted, in chain order
    head,             \* provider.getBlockNumber()
    store,            \* the database (this._db), committed rows only
    gst,              \* this._globalStateTree, the leaves inserted so far
    pc,               \* position of the Synchronizer: init, loop, batch, dead
    latestBlock,      \* startDaemon: let latestBlock
    latestProcessed,  \* startDaemon: let latestProcessed
    newLatest,        \* startDaemon: const newLatest of the poll in progress
    batch,            \* processEvents: the sorted events not yet handled
    invoked,          \* history: logs handed to a handler by this instance
    commits,          \* history: logs whose transaction committed, ever
    emitted,          \* history: logs whose topic was emitted to the listeners
    stopRequested,    \* the caller has asked the Synchronizer to stop
    calldata,         \* BaseVerifierHelper: the uint256 a call is made with
    returned          \* BaseVerifierHelper: the call made and what it returned

vars == <<chain, head, store, gst, pc, latestBlock, latestProcessed,
          newLatest, batch, invoked, commits, emitted, stopRequested, calldata, returned>>

(***************************************************************************)
(* Bounds                                                                  *)
(***************************************************************************)
MaxBlock == 2
MaxLogs == 3
MaxLogsAtt == 5
MaxLogsGST == 8
MaxLogsProof == 3

(***************************************************************************)
(* Generic helpers                                                         *)
(***************************************************************************)
Range(s) == {s[i] : i \in 1..Len(s)}

Last(s) == s[Len(s)]


(***************************************************************************)
(* Hashes and trees (@unirep/crypto, ./utils)                              *)
(***************************************************************************)
\* mutant of hashLeftRight: the inputs the other way round
hashRightLeft(a, b) == b \o <<a>>

\* hashLeftRight(a, b): a is a field element, b the encoding of the right input
hashLeftRight(a, b) == <<a>> \o b

\* computeInitUserStateRoot(depth, attesterId, airdrop)
computeInitUserStateRoot(attesterId, airdrop) == <<attesterId, airdrop>>

\* IncrementalMerkleTree.root of the tree holding `leaves`, inserted in order
IMTRoot(leaves) == leaves

\* SparseMerkleTree.update(key, value) on the tree with non-default leaves `t`
SMTUpdate(t, key, value) == {l \in t : l[1] # key} \cup {<<key, value>>}

\* genNewSMT(depth, SMT_ONE_LEAF): no leaf differs from the default
genNewSMT == {}

(***************************************************************************)
(* The database.  Every table is the sequence of its rows in insertion     *)
(* order; SynchronizerState holds at most one row.                         *)
(***************************************************************************)
EmptyStore ==
    [ Epoch             |-> <<>>,
      GSTLeaf           |-> <<>>,
      GSTRoot           |-> <<>>,
      EpochKey          |-> <<>>,
      Attestation       |-> <<>>,
      Nullifier         |-> <<>>,
      Proof             |-> <<>>,
      SynchronizerState |-> <<>> ]

\* A where clause is a record: a row matches when it has the clause's value
\* in each of the clause's fields.  The empty clause {} is <<>>.
Matches(row, where) == \A f \in DOMAIN where : row[f] = where[f]

\* db.findMany(table, {where}) : the matching rows, in insertion order;
\* db.findOne is its first row, if any
FindMany(rows, where) == SelectSeq(rows, LAMBDA r : Matches(r, where))

\* db.findMany with {field: [values], ...where}: the field is one of the values
FindManyIn(rows, field, values, where) ==
    SelectSeq(rows, LAMBDA r : r[field] \in Range(values) /\ Matches(r, where))

\* db.count(table, where)
Count(rows, where) == Len(FindMany(rows, where))

\* db.update(table, {where, update}) : every matching row gets the fields of
\* `update`
Update(rows, where, update) ==
    [i \in 1..Len(rows) |->
        IF Matches(rows[i], where) THEN update @@ rows[i] ELSE rows[i]]

\* db.delete(table, {where: {field: [values], ...where}})
DeleteIn(rows, field, values, where) ==
    SelectSeq(rows, LAMBDA r : ~(r[field] \in Range(values) /\ Matches(r, where)))

(***************************************************************************)
(* Logs.  A log carries its position, its first topic and the decoded      *)
(* arguments of its event; arguments an event does not have are zero.      *)
(***************************************************************************)
NoArgs ==
    [ topic |-> "", epoch |-> 0, idCommitment |-> 0, attesterId |-> 0, airdrop |-> 0,
      epochKey |-> 0, toProofIndex |-> 0, fromProofIndex |-> 0, attHash |-> 0,
      proofIndex |-> 0, verify |-> FALSE, globalStateTree |-> <<>>,
      nullifiers |-> <<>>, leaf |-> <<>>,
      blindedUserState |-> 0, blindedHashChain |-> 0,
      inputBlindedUserState |-> 0, outputBlindedUserState |-> 0,
      outputBlindedHashChain |-> 0, proof |-> <<>>, proofIndexRecords |-> <<>> ]

\* (blockNumber, transactionIndex, logIndex) of a log or of the cursor
Pos(e) == <<e.blockNumber, e.transactionIndex, e.logIndex>>

PosLess(p, q) ==
    \/ p[1] < q[1]
    \/ p[1] = q[1] /\ p[2] < q[2]
    \/ p[1] = q[1] /\ p[2] = q[2] /\ p[3] < q[3]


(***************************************************************************)
(* Settings read from the contract in setup()                              *)
(***************************************************************************)
epochTreeDepth == 2

numEpochKeyNoncePerEpoch == 1

RECURSIVE Pow2(_)
Pow2(n) == IF n = 0 THEN 1 ELSE 2 * Pow2(n - 1)

(***************************************************************************)
(* Queries of the Synchronizer.  `st` is the committed database.           *)
(***************************************************************************)
\* mutant of loadCurrentEpoch: the row of the lowest-numbered epoch
loadOldestEpoch(st) ==
    IF st.Epoch = <<>>
    THEN [number |-> 1, sealed |-> FALSE]
    ELSE LET r == CHOOSE r \in Range(st.Epoch) :
                      \A q \in Range(st.Epoch) : q.number >= r.number
         IN  [number |-> r.number, sealed |-> r.sealed]

\* the row of the highest-numbered epoch, or the default of epoch 1
loadCurrentEpoch(st) ==
    IF st.Epoch = <<>>
    THEN [number |-> 1, sealed |-> FALSE]
    ELSE LET r == CHOOSE r \in Range(st.Epoch) :
                      \A q \in Range(st.Epoch) : q.number <= r.number
         IN  [number |-> r.number, sealed |-> r.sealed]

\* mutant of _checkCurrentEpoch: the check is missing
_checkCurrentEpochMissing(st, epoch) == TRUE

\* TRUE iff _checkCurrentEpoch(epoch) returns without throwing
_checkCurrentEpoch(st, epoch) == epoch = loadCurrentEpoch(st).number

\* TRUE iff _checkValidEpoch(epoch) returns without throwing
_checkValidEpoch(st, epoch) == ~(epoch > loadCurrentEpoch(st).number)

\* TRUE iff _checkEpochKeyRange(epochKey) returns without throwing
_checkEpochKeyRange(epochKey) == ~(epochKey >= Pow2(epochTreeDepth))

\* TRUE iff _isEpochKeySealed(epoch, epochKey) returns without throwing
_isEpochKeySealed(st, epoch, epochKey) ==
    LET _epochKey == FindMany(st.EpochKey, [epoch |-> epoch, key |-> epochKey])
        epochDoc  == FindMany(st.Epoch, [number |-> epoch])
    IN  ~(_epochKey # <<>> /\ epochDoc # <<>> /\ Head(epochDoc).sealed)

\* rows sorted by ascending index (orderBy: {index: 'asc'}); rows of equal
\* index keep their insertion order
RECURSIVE OrderByIndex(_)
OrderByIndex(rows) ==
    IF rows = <<>> THEN <<>>
    ELSE LET i == CHOOSE i \in 1..Len(rows) :
                      /\ \A j \in 1..Len(rows) : rows[i].index <= rows[j].index
                      /\ \A j \in 1..(i - 1) : rows[j].index # rows[i].index
         IN  <<rows[i]>> \o
             OrderByIndex(SubSeq(rows, 1, i - 1) \o SubSeq(rows, i + 1, Len(rows)))

\* the leaves of the tree genGSTree(epoch) builds, in insertion order
GSTLeavesOf(st, epoch) ==
    LET leaves == OrderByIndex(FindMany(st.GSTLeaf, [epoch |-> epoch]))
    IN  [i \in 1..Len(leaves) |-> leaves[i].hash]

\* genGSTree(epoch).root; the call throws when _checkValidEpoch does
genGSTree(st, epoch) == IMTRoot(GSTLeavesOf(st, epoch))

\* the hash chain of one epoch key: its valid attestations folded by index
RECURSIVE HashChain(_)
HashChain(attestations) ==
    IF attestations = <<>> THEN <<>>
    ELSE hashLeftRight(Last(attestations).hash,
                       HashChain(SubSeq(attestations, 1, Len(attestations) - 1)))

\* mutant of epochTreeLeaf: the attestations are folded whatever their valid
epochTreeLeafOfAllAttestations(st, epoch, key) ==
    LET attestations == OrderByIndex(FindMany(st.Attestation,
            [epoch |-> epoch, epochKey |-> key]))
    IN  hashLeftRight(1, HashChain(attestations))

epochTreeLeaf(st, epoch, key) ==
    LET attestations == OrderByIndex(FindMany(st.Attestation,
            [epoch |-> epoch, epochKey |-> key, valid |-> "true"]))
    IN  hashLeftRight(1, HashChain(attestations))

RECURSIVE SMTOfLeaves(_, _, _)
SMTOfLeaves(st, epoch, epochKeys) ==
    IF epochKeys = <<>> THEN genNewSMT
    ELSE LET k == Last(epochKeys).key
         IN  SMTUpdate(SMTOfLeaves(st, epoch,
                           SubSeq(epochKeys, 1, Len(epochKeys) - 1)),
                       k, epochTreeLeaf(st, epoch, k))

\* genEpochTree(epoch).root
genEpochTree(st, epoch) ==
    SMTOfLeaves(st, epoch, FindMany(st.EpochKey, [epoch |-> epoch]))

\* TRUE iff genEpochTree(epoch) returns without throwing
genEpochTreeOk(st, epoch) ==
    /\ _checkValidEpoch(st, epoch)
    /\ \A r \in Range(st.EpochKey) : r.epoch = epoch => _checkEpochKeyRange(r.key)

\* mutant of GSTRootExists: the root of any epoch will do
GSTRootExistsInAnyEpoch(st, GSTRoot, epoch) ==
    FindMany(st.GSTRoot, [root |-> GSTRoot]) # <<>>

\* GSTRootExists(GSTRoot, epoch), for an epoch that passes _checkValidEpoch
GSTRootExists(st, GSTRoot, epoch) ==
    FindMany(st.GSTRoot, [epoch |-> epoch, root |-> GSTRoot]) # <<>>

\* getAttestations(epochKey)
getAttestations(st, epochKey) ==
    FindMany(st.Attestation, [epochKey |-> epochKey, valid |-> "true"])

(***************************************************************************)
(* Handlers.  A handler reads the committed database `st` (this._db),      *)
(* queues its writes on the transaction (the field db of its result, which *)
(* starts as st) and may change the in-memory tree at once (the field gst).*)
(***************************************************************************)
\* mutant of Throw: the error is swallowed
ThrowSwallowed(db, tree) == [threw |-> FALSE, db |-> db, gst |-> tree]

Throw(db, tree)  == [threw |-> TRUE,  db |-> db, gst |-> tree]
Return(db, tree) == [threw |-> FALSE, db |-> db, gst |-> tree]

TxHash(event) == <<event.blockNumber, event.transactionIndex>>

\* mutant of leafIndexInEpoch: the leaves of every epoch are counted
leafIndexInAllEpochs(st, epoch) == Count(st.GSTLeaf, <<>>)

\* const leafIndexInEpoch = await this._db.count('GSTLeaf', {epoch})
leafIndexInEpoch(st, epoch) == Count(st.GSTLeaf, [epoch |-> epoch])

\* the end of userSignedUpEvent and of USTEvent: the leaf goes into the
\* in-memory tree, then its GSTLeaf row and the GSTRoot row of the new root
\* are queued on db
InsertGSTLeaf(st, db, tree, event, epoch, leaf) ==
    LET tree1 == Append(tree, leaf)
    IN  Return(
          [db EXCEPT
             !.GSTLeaf = Append(@, [epoch |-> epoch,
                                    transactionHash |-> TxHash(event),
                                    hash |-> leaf,
                                    index |-> leafIndexInEpoch(st, epoch)]),
             !.GSTRoot = Append(@, [epoch |-> epoch,
                                    root |-> IMTRoot(tree1)])],
          tree1)

userSignedUpEvent(event, st, tree) ==
    LET epoch      == event.epoch
        USTRoot    == computeInitUserStateRoot(event.attesterId, event.airdrop)
        newGSTLeaf == hashLeftRight(event.idCommitment, USTRoot)
    IN  IF ~_checkCurrentEpoch(st, epoch) THEN Throw(st, tree)
        ELSE InsertGSTLeaf(st, st, tree, event, epoch, newGSTLeaf)

\* mutant of UpsertSealedEpoch: an existing row is left as it is
UpsertSealedEpochCreateOnly(rows, epoch, root) ==
    IF \E r \in Range(rows) : r.number = epoch
    THEN rows
    ELSE Append(rows, [number |-> epoch, sealed |-> TRUE, epochRoot |-> <<root>>])

\* db.upsert('Epoch', {where: {number}, update/create: {sealed: true, epochRoot}})
UpsertSealedEpoch(rows, epoch, root) ==
    IF \E r \in Range(rows) : r.number = epoch
    THEN Update(rows, [number |-> epoch],
                [sealed |-> TRUE, epochRoot |-> <<root>>])
    ELSE Append(rows, [number |-> epoch, sealed |-> TRUE, epochRoot |-> <<root>>])

\* mutant of epochEndedEvent: the in-memory tree is not replaced
epochEndedEventKeepsTree(event, st, tree) ==
    LET epoch == event.epoch
        root  == genEpochTree(st, epoch)
    IN  IF ~genEpochTreeOk(st, epoch) THEN Throw(st, tree)
        ELSE Return(
               [st EXCEPT
                  !.Epoch = Append(UpsertSealedEpoch(@, epoch, root),
                                   [number |-> epoch + 1, sealed |-> FALSE,
                                    epochRoot |-> <<>>])],
               tree)

\* epochEndedEvent: the Epoch row of the epoch is sealed with the root of
\* its epoch tree, the row of the next epoch is created, the in-memory tree
\* is replaced by an empty one
epochEndedEvent(event, st, tree) ==
    LET epoch == event.epoch
        root  == genEpochTree(st, epoch)
    IN  IF ~genEpochTreeOk(st, epoch) THEN Throw(st, tree)
        ELSE Return(
               [st EXCEPT
                  !.Epoch = Append(UpsertSealedEpoch(@, epoch, root),
                                   [number |-> epoch + 1, sealed |-> FALSE,
                                    epochRoot |-> <<>>])],
               <<>>)


\* the number of decimal digits of n >= 0
RECURSIVE Digits(_)
Digits(n) == IF n < 10 THEN 1 ELSE 1 + Digits(n \div 10)

RECURSIVE Pow10(_)
Pow10(n) == IF n = 0 THEN 1 ELSE 10 * Pow10(n - 1)

\* +`${a}${b}` : the number whose decimal digits are those of a, then those of b
DecimalConcat(a, b) == a * Pow10(Digits(b)) + b

\* index: +`${event.blockNumber}${event.transactionIndex}${event.logIndex}`
AttestationIndex(event) ==
    DecimalConcat(DecimalConcat(event.blockNumber, event.transactionIndex),
                  event.logIndex)

\* db.findOne('Proof', {where: {epoch, index}}) as the sequence of the matches
FindProof(st, epoch, index) ==
    FindMany(st.Proof, [epoch |-> epoch, index |-> index])

\* db.upsert('EpochKey', {where: {epoch, key}, update: {}, create: {epoch, key}})
UpsertEpochKey(rows, epoch, key) ==
    IF \E r \in Range(rows) : r.epoch = epoch /\ r.key = key
    THEN rows
    ELSE Append(rows, [epoch |-> epoch, key |-> key])

\* The row attestationEvent creates.  The code leaves `valid` unset and does
\* not persist fromProofIndex: the field is history, no query reads it.
AttestationRow(event) ==
    [ epoch           |-> event.epoch,
      epochKey        |-> event.epochKey,
      index           |-> AttestationIndex(event),
      transactionHash |-> TxHash(event),
      proofIndex      |-> event.toProofIndex,
      hash            |-> event.attHash,
      valid           |-> "unset",
      fromProofIndex  |-> event.fromProofIndex,
      log             |-> Pos(event) ]

attestationEvent(event, st, tree) ==
    LET _epoch         == event.epoch
        _epochKey      == event.epochKey
        toProofIndex   == event.toProofIndex
        fromProofIndex == event.fromProofIndex
        db1            == [st EXCEPT !.Attestation = Append(@, AttestationRow(event))]
        validProof     == FindProof(st, _epoch, toProofIndex)
        fromValidProof == FindProof(st, _epoch, fromProofIndex)
        \* the last two writes: every attestation of the epoch key, then the key
        accept(db)     ==
            [db EXCEPT
               !.Attestation = Update(@,
                    [epoch |-> _epoch, epochKey |-> _epochKey],
                    [valid |-> "true"]),
               !.EpochKey = UpsertEpochKey(@, _epoch, _epochKey)]
    IN  IF \/ ~_checkCurrentEpoch(st, _epoch)
           \/ ~_checkEpochKeyRange(_epochKey)
           \/ ~_isEpochKeySealed(st, _epoch, _epochKey)
        THEN Throw(st, tree)
        ELSE IF validProof = <<>> THEN Throw(db1, tree)
        ELSE IF ~Head(validProof).valid
        THEN Return(
               [db1 EXCEPT !.Attestation = Update(@,
                    [epoch |-> _epoch, epochKey |-> _epochKey,
                     proofIndex |-> toProofIndex],
                    [valid |-> "false"])],
               tree)
        ELSE IF fromProofIndex # 0
        THEN IF fromValidProof = <<>> THEN Throw(db1, tree)
             ELSE IF ~Head(fromValidProof).valid \/ Head(fromValidProof).spent
             THEN Return(
                    [db1 EXCEPT !.Attestation = Update(@,
                         [epoch |-> _epoch, epochKey |-> _epochKey,
                          proofIndex |-> fromProofIndex],
                         [valid |-> "false"])],
                    tree)
             ELSE Return(
                    accept([db1 EXCEPT !.Proof = Update(@,
                         [epoch |-> _epoch, index |-> fromProofIndex],
                         [spent |-> TRUE])]),
                    tree)
        ELSE Return(accept(db1), tree)

\* The row an Indexed*Proof handler creates.  A field the handler does not
\* set is null in the database and matches no where clause: it is -1 here, or
\* empty, which no argument of an event is.
ProofRow(event, name, valid) ==
    [ index                  |-> event.proofIndex,
      epoch                  |-> -1,
      event                  |-> name,
      valid                  |-> valid,
      spent                  |-> FALSE,
      globalStateTree        |-> event.globalStateTree,
      transactionHash        |-> TxHash(event),
      blindedUserState       |-> -1,
      blindedHashChain       |-> -1,
      inputBlindedUserState  |-> -1,
      outputBlindedUserState |-> -1,
      outputBlindedHashChain |-> -1,
      publicSignals          |-> <<>>,
      proofIndexRecords      |-> <<>> ]

\* epochKeyProofEvent and userSignedUpProofEvent: the same steps, another name
EpochProofEvent(event, st, tree, name) ==
    LET _epoch  == event.epoch
        isValid == event.verify
        exist   == GSTRootExists(st, event.globalStateTree, _epoch)
    IN  IF ~_checkValidEpoch(st, _epoch) THEN Throw(st, tree)
        ELSE Return(
               [st EXCEPT !.Proof = Append(@,
                    [ProofRow(event, name, isValid /\ exist)
                        EXCEPT !.epoch = _epoch])],
               tree)

epochKeyProofEvent(event, st, tree) ==
    EpochProofEvent(event, st, tree, "IndexedEpochKeyProof")

userSignedUpProofEvent(event, st, tree) ==
    EpochProofEvent(event, st, tree, "IndexedUserSignedUpProof")

\* .filter((n) => n !== '0')
NonZero(ns) == SelectSeq(ns, LAMBDA n : n # 0)

\* The row db.create('Nullifier', {epoch, nullifier}) inserts: `confirmed` is
\* not given by the handler, the schema's default decides it.
NullifierRow(epoch, nullifier) ==
    [epoch |-> epoch, nullifier |-> nullifier, confirmed |-> TRUE]

\* mutant of existingNullifier: the confirmed rows are not looked up
existingNullifierIgnored(st, ns) == FALSE

\* db.findOne('Nullifier', {where: {nullifier: [...], confirmed: true}})
existingNullifier(st, ns) ==
    FindManyIn(st.Nullifier, "nullifier", ns, [confirmed |-> TRUE]) # <<>>

\* db.delete of the unconfirmed rows of ns, then db.create of one row for
\* every element of ns
SaveNullifiers(rows, epoch, ns) ==
    DeleteIn(rows, "nullifier", ns, [confirmed |-> FALSE])
        \o [i \in 1..Len(ns) |-> NullifierRow(epoch, ns[i])]

reputationProofEvent(event, st, tree) ==
    LET _epoch        == event.epoch
        isValid       == event.verify
        exist         == GSTRootExists(st, event.globalStateTree, _epoch)
        repNullifiers == NonZero(event.nullifiers)
        existing      == existingNullifier(st, repNullifiers)
        db1           == IF existing THEN st
                         ELSE [st EXCEPT !.Nullifier =
                                  SaveNullifiers(@, _epoch, repNullifiers)]
    IN  IF ~_checkValidEpoch(st, _epoch) THEN Throw(st, tree)
        ELSE Return(
               [db1 EXCEPT !.Proof = Append(@,
                    [ProofRow(event, "IndexedReputationProof",
                              isValid /\ exist /\ ~existing)
                        EXCEPT !.epoch = _epoch])],
               tree)

startUSTProofEvent(event, st, tree) ==
    LET isValid == event.verify
    IN  Return(
          [st EXCEPT !.Proof = Append(@,
               [ProofRow(event, "IndexedStartedTransitionProof", isValid)
                   EXCEPT !.blindedUserState = event.blindedUserState,
                          !.blindedHashChain = event.blindedHashChain])],
          tree)

\* globalStateTree: '0', which is the root of no tree
processAttestationProofEvent(event, st, tree) ==
    LET isValid == event.verify
    IN  Return(
          [st EXCEPT !.Proof = Append(@,
               [ProofRow(event, "IndexedProcessedAttestationsProof", isValid)
                   EXCEPT !.outputBlindedUserState = event.outputBlindedUserState,
                          !.outputBlindedHashChain = event.outputBlindedHashChain,
                          !.inputBlindedUserState  = event.inputBlindedUserState,
                          !.globalStateTree        = <<<<0>>>>])],
          tree)

\* formatPublicSignals of USTProofEvent: the concatenation of the arguments
\* of the proof
USTPublicSignals(args) ==
    <<args.newGlobalStateTreeLeaf>> \o args.epkNullifiers
        \o <<args.transitionFromEpoch>> \o args.blindedUserStates
        \o <<args.fromGlobalStateTree>> \o args.blindedHashChains
        \o <<args.fromEpochTree>>

USTProofEvent(event, st, tree) ==
    LET args    == event.proof
        isValid == event.verify
        exist   == GSTRootExists(st, args.fromGlobalStateTree,
                                 args.transitionFromEpoch)
    IN  IF ~_checkValidEpoch(st, args.transitionFromEpoch) THEN Throw(st, tree)
        ELSE Return(
               [st EXCEPT !.Proof = Append(@,
                    [ProofRow(event, "IndexedUserStateTransitionProof",
                              isValid /\ exist)
                        EXCEPT !.publicSignals     = USTPublicSignals(args),
                               !.blindedUserState  = args.blindedUserStates[1],
                               !.globalStateTree   = args.fromGlobalStateTree,
                               !.proofIndexRecords = event.proofIndexRecords])],
               tree)

\* new UserTransitionProof(publicSignals, proof): the public signals by name
UserTransitionProof(publicSignals) ==
    LET K == numEpochKeyNoncePerEpoch
    IN  [ newGlobalStateTreeLeaf |-> publicSignals[1],
          epkNullifiers          |-> SubSeq(publicSignals, 2, K + 1),
          transitionFromEpoch    |-> publicSignals[K + 2],
          blindedUserStates      |-> SubSeq(publicSignals, K + 3, K + 4),
          fromGlobalStateTree    |-> publicSignals[K + 5],
          blindedHashChains      |-> SubSeq(publicSignals, K + 6, 2 * K + 5),
          fromEpochTree          |-> publicSignals[2 * K + 6] ]

\* mutant of ProcessAttestationsProofsOk: the processed attestations proofs
\* are not looked at
ProcessAttestationsProofsUnchecked(st, proofIndexRecords, i, currentBlindedUserState) == TRUE

\* the loop of USTEvent over proofIndexRecords[i..]: TRUE iff every processed
\* attestations proof is found, valid, and takes the blinded user state the
\* proof before it gave
RECURSIVE ProcessAttestationsProofsOk(_, _, _, _)
ProcessAttestationsProofsOk(st, proofIndexRecords, i, currentBlindedUserState) ==
    IF i > Len(proofIndexRecords) THEN TRUE
    ELSE LET processAttestationsProof == FindMany(st.Proof,
                 [event |-> "IndexedProcessedAttestationsProof",
                  index |-> proofIndexRecords[i]])
         IN  /\ processAttestationsProof # <<>>
             /\ Head(processAttestationsProof).valid
             /\ currentBlindedUserState =
                    Head(processAttestationsProof).inputBlindedUserState
             /\ ProcessAttestationsProofsOk(st, proofIndexRecords, i + 1,
                    Head(processAttestationsProof).outputBlindedUserState)

\* findBlindHC: the proofs of proofIndexRecords whose outputBlindedHashChain
\* is blindedHC
findBlindHC(st, blindedHC, proofIndexRecords) ==
    SelectSeq(st.Proof, LAMBDA r :
        /\ r.outputBlindedHashChain = blindedHC
        /\ r.event \in {"IndexedStartedTransitionProof",
                        "IndexedProcessedAttestationsProof"}
        /\ r.index \in Range(proofIndexRecords))

USTEvent(event, st, tree) ==
    LET epoch      == event.epoch
        leaf       == event.leaf
        proofIndex == event.proofIndex
        transitionProof == FindMany(st.Proof,
            [index |-> proofIndex, event |-> "IndexedUserStateTransitionProof"])
        proofIndexRecords == Head(transitionProof).proofIndexRecords
        startTransitionProof == FindMany(st.Proof,
            [event |-> "IndexedStartedTransitionProof",
             index |-> proofIndexRecords[1]])
        formatProof   == UserTransitionProof(Head(transitionProof).publicSignals)
        fromEpoch     == formatProof.transitionFromEpoch
        gstRoot       == formatProof.fromGlobalStateTree
        epochTreeRoot == formatProof.fromEpochTree
        epkNullifiers == NonZero(formatProof.epkNullifiers)
    IN  IF transitionProof = <<>> THEN Throw(st, tree)
        ELSE IF ~Head(transitionProof).valid THEN Return(st, tree)
        \* startTransitionProof.valid of no row
        ELSE IF startTransitionProof = <<>> THEN Throw(st, tree)
        ELSE IF ~Head(startTransitionProof).valid THEN Return(st, tree)
        ELSE IF \/ Head(startTransitionProof).blindedUserState #
                       Head(transitionProof).blindedUserState
                \/ Head(startTransitionProof).globalStateTree #
                       Head(transitionProof).globalStateTree
        THEN Return(st, tree)
        ELSE IF ~ProcessAttestationsProofsOk(st, proofIndexRecords, 2,
                     Head(startTransitionProof).blindedUserState)
        THEN Return(st, tree)
        \* findBlindHC.index of no row
        ELSE IF \E i \in 1..Len(formatProof.blindedHashChains) :
                    findBlindHC(st, formatProof.blindedHashChains[i],
                                proofIndexRecords) = <<>>
        THEN Throw(st, tree)
        ELSE IF ~_checkValidEpoch(st, fromEpoch) THEN Throw(st, tree)
        ELSE IF ~GSTRootExists(st, gstRoot, fromEpoch) THEN Return(st, tree)
        ELSE IF FindMany(st.Epoch, [number |-> fromEpoch,
                                    epochRoot |-> <<epochTreeRoot>>]) = <<>>
        THEN Return(st, tree)
        ELSE IF existingNullifier(st, epkNullifiers) THEN Return(st, tree)
        ELSE InsertGSTLeaf(st,
               [st EXCEPT !.Nullifier = SaveNullifiers(@, epoch, epkNullifiers)],
               tree, event, epoch, leaf)


(***************************************************************************)
(* processEvents: dispatch and the transaction of one event                *)
(***************************************************************************)
\* the topics that have a handler
KnownTopics ==
    {"UserSignedUp", "UserStateTransitioned", "AttestationSubmitted",
     "LegacyAttestation", "EpochEnded", "IndexedEpochKeyProof",
     "IndexedReputationProof", "IndexedUserSignedUpProof",
     "IndexedStartedTransitionProof", "IndexedProcessedAttestationsProof",
     "IndexedUserStateTransitionProof"}

\* this.topicHandlers[event.topics[0]], applied; no handler: the throw of the
\* unrecognized topic
Handle(event, st, tree) ==
    CASE event.topic = "UserSignedUp"             -> userSignedUpEvent(event, st, tree)
      [] event.topic = "AttestationSubmitted"     -> attestationEvent(event, st, tree)
      [] event.topic = "LegacyAttestation"        -> attestationEvent(event, st, tree)
      [] event.topic = "EpochEnded"               -> epochEndedEvent(event, st, tree)
      [] event.topic = "IndexedEpochKeyProof"     -> epochKeyProofEvent(event, st, tree)
      [] event.topic = "IndexedReputationProof"   -> reputationProofEvent(event, st, tree)
      [] event.topic = "IndexedUserSignedUpProof" -> userSignedUpProofEvent(event, st, tree)
      [] event.topic = "UserStateTransitioned"    -> USTEvent(event, st, tree)
      [] event.topic = "IndexedStartedTransitionProof" ->
             startUSTProofEvent(event, st, tree)
      [] event.topic = "IndexedProcessedAttestationsProof" ->
             processAttestationProofEvent(event, st, tree)
      [] event.topic = "IndexedUserStateTransitionProof" ->
             USTProofEvent(event, st, tree)
      [] OTHER                                    -> Throw(st, tree)

\* db.update('SynchronizerState', {latestProcessed...}) of processEvents
AdvanceCursor(db, event) ==
    [db EXCEPT !.SynchronizerState = Update(@, <<>>,
        [latestProcessedBlock            |-> event.blockNumber,
         latestProcessedTransactionIndex |-> event.transactionIndex,
         latestProcessedEventIndex       |-> event.logIndex])]

\* mutant of Transaction: the writes queued before a throw are persisted
TransactionWithoutRollback(st, res, event) ==
    IF res.threw THEN res.db ELSE AdvanceCursor(res.db, event)

\* this._db.transaction(fn): the database after fn ran with result `res`
Transaction(st, res, event) ==
    IF res.threw THEN st ELSE AdvanceCursor(res.db, event)

\* mutant of compareEvents: the logs of the newest block first
compareEventsNewestBlockFirst(a, b) ==
    IF a.blockNumber # b.blockNumber THEN b.blockNumber - a.blockNumber
    ELSE IF a.transactionIndex # b.transactionIndex
         THEN a.transactionIndex - b.transactionIndex
         ELSE a.logIndex - b.logIndex

\* mutant of compareEvents: the logs of one transaction in descending order
compareEventsDescending(a, b) ==
    IF a.blockNumber # b.blockNumber THEN a.blockNumber - b.blockNumber
    ELSE IF a.transactionIndex # b.transactionIndex
         THEN a.transactionIndex - b.transactionIndex
         ELSE b.logIndex - a.logIndex

\* the comparator of events.sort
compareEvents(a, b) ==
    IF a.blockNumber # b.blockNumber THEN a.blockNumber - b.blockNumber
    ELSE IF a.transactionIndex # b.transactionIndex
         THEN a.transactionIndex - b.transactionIndex
         ELSE a.logIndex - b.logIndex

\* events.sort(compareEvents) of the events queryFilter returned
RECURSIVE SortEvents(_)
SortEvents(events) ==
    IF events = {} THEN <<>>
    ELSE LET m == CHOOSE x \in events : \A y \in events : compareEvents(x, y) <= 0
         IN  <<m>> \o SortEvents(events \ {m})

\* mutant of IsUnprocessed: the filter is missing
IsUnprocessedUnfiltered(e, state) == TRUE

\* mutant of IsUnprocessed: the log at the cursor is retained
IsUnprocessedOrAtCursor(e, state) ==
    IF e.blockNumber = state.latestProcessedBlock
    THEN IF e.transactionIndex = state.latestProcessedTransactionIndex
         THEN e.logIndex >= state.latestProcessedEventIndex
         ELSE e.transactionIndex > state.latestProcessedTransactionIndex
    ELSE e.blockNumber > state.latestProcessedBlock

\* the filter of startDaemon: is e after the persisted cursor `state`
IsUnprocessed(e, state) ==
    IF e.blockNumber = state.latestProcessedBlock
    THEN IF e.transactionIndex = state.latestProcessedTransactionIndex
         THEN e.logIndex > state.latestProcessedEventIndex
         ELSE e.transactionIndex > state.latestProcessedTransactionIndex
    ELSE e.blockNumber > state.latestProcessedBlock

\* mutant of loadNewEvents: the range starts after fromBlock
loadNewEventsAfter(fromBlock, toBlock) ==
    {e \in Range(chain) : fromBlock < e.blockNumber /\ e.blockNumber <= toBlock}

\* mutant of loadNewEvents: the range ends before toBlock
loadNewEventsBefore(fromBlock, toBlock) ==
    {e \in Range(chain) : fromBlock <= e.blockNumber /\ e.blockNumber < toBlock}

\* this.unirepContract.queryFilter(this.unirepFilter, fromBlock, toBlock)
loadNewEvents(fromBlock, toBlock) ==
    {e \in Range(chain) : fromBlock <= e.blockNumber /\ e.blockNumber <= toBlock}

\* processEvents(events) on the database st and the tree: one transaction
\* per event, in the order given, up to the first that throws
RECURSIVE processEvents(_, _, _)
processEvents(st, tree, events) ==
    IF events = <<>> THEN [db |-> st, gst |-> tree]
    ELSE LET res == Handle(Head(events), st, tree)
         IN  IF res.threw THEN [db |-> st, gst |-> res.gst]
             ELSE processEvents(Transaction(st, res, Head(events)), res.gst,
                                Tail(events))

(***************************************************************************)
(* The Synchronizer                                                        *)
(***************************************************************************)
\* the database of a first start(): no row but that of SynchronizerState
FreshStore ==
    [EmptyStore EXCEPT !.SynchronizerState =
        <<[latestProcessedBlock            |-> 0,
           latestProcessedTransactionIndex |-> 0,
           latestProcessedEventIndex       |-> 0,
           latestCompleteBlock             |-> 0]>>]

Cursor(st) ==
    IF st.SynchronizerState = <<>> THEN <<0, 0, 0>>
    ELSE LET r == Head(st.SynchronizerState)
         IN  <<r.latestProcessedBlock, r.latestProcessedTransactionIndex,
               r.latestProcessedEventIndex>>

\* latestCompleteBlock of the SynchronizerState row, 0 before start()
latestCompleteBlock(st) ==
    IF st.SynchronizerState = <<>> THEN 0
    ELSE Head(st.SynchronizerState).latestCompleteBlock

\* setup(): the in-memory tree of the unsealed epoch, empty when no Epoch row
\* is unsealed
setup(st) ==
    LET epoch == FindMany(st.Epoch, [sealed |-> FALSE])
    IN  IF epoch = <<>> THEN <<>> ELSE GSTLeavesOf(st, Head(epoch).number)

\* start(): setup(), the first SynchronizerState row, the start of startDaemon
Start ==
    /\ pc = "init"
    /\ IF Len(FindMany(store.Epoch, [sealed |-> FALSE])) > 1
       THEN /\ pc' = "dead"
            /\ UNCHANGED <<store, gst, latestBlock>>
       ELSE /\ pc' = "loop"
            /\ gst' = setup(store)
            /\ store' = IF store.SynchronizerState # <<>> THEN store
                        ELSE [store EXCEPT !.SynchronizerState =
                                <<[latestProcessedBlock            |-> 0,
                                   latestProcessedTransactionIndex |-> 0,
                                   latestProcessedEventIndex       |-> 0,
                                   latestCompleteBlock             |-> 0]>>]
            /\ latestBlock' = head
    /\ latestProcessed' = 0
    /\ UNCHANGED <<chain, head, newLatest, batch, invoked, commits, emitted,
                   stopRequested, calldata, returned>>

\* provider.on('block', (num) => { if (num > latestBlock) latestBlock = num })
BlockNotify ==
    /\ pc \in {"loop", "batch"}
    /\ \E num \in 1..head :
          /\ num > latestBlock
          /\ latestBlock' = num
    /\ UNCHANGED <<chain, head, store, gst, pc, latestProcessed, newLatest,
                   batch, invoked, commits, emitted,
                   stopRequested, calldata, returned>>

\* the loop of startDaemon finds nothing new and sleeps
Sleep ==
    /\ pc = "loop"
    /\ latestProcessed = latestBlock
    /\ UNCHANGED vars

\* one poll: the events of (latestProcessed, latestBlock] after the cursor,
\* sorted
Poll ==
    /\ pc = "loop"
    /\ latestProcessed # latestBlock
    /\ newLatest' = latestBlock
    /\ LET allEvents == loadNewEvents(latestProcessed + 1, latestBlock)
           state     == Head(store.SynchronizerState)
       IN  batch' = SortEvents({e \in allEvents : IsUnprocessed(e, state)})
    /\ pc' = "batch"
    /\ UNCHANGED <<chain, head, store, gst, latestBlock, latestProcessed,
                   invoked, commits, emitted,
                   stopRequested, calldata, returned>>

\* mutant of EmitSignal: the topic is emitted whether or not the transaction
\* committed
EmitSignalAlways(signals, threw, event) == Append(signals, Pos(event))

\* this.emit(event.topics[0], event), reached when the transaction resolved
EmitSignal(signals, threw, event) ==
    IF threw THEN signals ELSE Append(signals, Pos(event))

\* one turn of the loop of processEvents: the transaction of the next event
ProcessEvent ==
    /\ pc = "batch"
    /\ batch # <<>>
    /\ LET event == Head(batch)
           res   == Handle(event, store, gst)
       IN  /\ store' = Transaction(store, res, event)
           /\ gst' = res.gst
           /\ invoked' = Append(invoked, Pos(event))
           /\ IF res.threw
              THEN /\ pc' = "dead"
                   /\ batch' = <<>>
                   /\ commits' = commits
              ELSE /\ pc' = "batch"
                   /\ batch' = Tail(batch)
                   /\ commits' = Append(commits, Pos(event))
           /\ emitted' = EmitSignal(emitted, res.threw, event)
    /\ UNCHANGED <<chain, head, latestBlock, latestProcessed, newLatest,
                   stopRequested, calldata, returned>>

\* one turn of the loop of processEvents where the handler returned and the
\* database failed to commit the transaction: this._db.transaction rejects,
\* the catch block throws the error on, and what the handler did to the
\* in-memory tree stays done
ProcessEventStoreFails ==
    /\ pc = "batch"
    /\ batch # <<>>
    /\ LET event == Head(batch)
           res   == Handle(event, store, gst)
       IN  /\ ~res.threw
           /\ gst' = res.gst
           /\ invoked' = Append(invoked, Pos(event))
    /\ pc' = "dead"
    /\ batch' = <<>>
    /\ UNCHANGED <<chain, head, store, latestBlock, latestProcessed, newLatest,
                   commits, emitted, stopRequested, calldata, returned>>

\* mutant of FinishBatch: the loop closes the batch with latestBlock as it is
\* then, not with the snapshot the batch was queried up to
FinishBatchAtLatestBlock ==
    /\ pc = "batch"
    /\ batch = <<>>
    /\ store' = [store EXCEPT !.SynchronizerState =
                    Update(@, <<>>, [latestCompleteBlock |-> latestBlock])]
    /\ latestProcessed' = latestBlock
    /\ pc' = "loop"
    /\ UNCHANGED <<chain, head, gst, latestBlock, newLatest, batch, invoked,
                   commits, emitted,
                   stopRequested, calldata, returned>>

\* the batch is drained: latestCompleteBlock, then the next turn of the loop
FinishBatch ==
    /\ pc = "batch"
    /\ batch = <<>>
    /\ store' = [store EXCEPT !.SynchronizerState =
                    Update(@, <<>>, [latestCompleteBlock |-> newLatest])]
    /\ latestProcessed' = newLatest
    /\ pc' = "loop"
    /\ UNCHANGED <<chain, head, gst, latestBlock, newLatest, batch, invoked,
                   commits, emitted,
                   stopRequested, calldata, returned>>

\* new Synchronizer(db, ...): a new instance on the same database, after the
\* process of the old one ended; nothing in memory survives
NewSynchronizer ==
    /\ pc # "init"
    /\ pc' = "init"
    /\ gst' = <<>>
    /\ latestBlock' = 0
    /\ latestProcessed' = 0
    /\ newLatest' = 0
    /\ batch' = <<>>
    /\ invoked' = <<>>
    /\ UNCHANGED <<chain, head, store, commits, emitted,
                   stopRequested, calldata, returned>>

Sync == Start \/ BlockNotify \/ Sleep \/ Poll \/ ProcessEvent \/ FinishBatch
            \/ NewSynchronizer

(***************************************************************************)
(* BaseVerifierHelper.sol.  A uint256 is the set of the positions of its   *)
(* one bits, bit 0 the lowest: the words are wider than the integers of    *)
(* the model checker.                                                      *)
(***************************************************************************)
\* data >> n in uint256
Shr(data, n) == {i - n : i \in {j \in data : j >= n}}

\* data << n in uint256: the bits shifted over bit 255 are lost
Shl(data, n) == {i + n : i \in {j \in data : j + n <= 255}}

\* x - 1 of an x that is not 0: the lowest one bit goes, the bits below it come
Decrement(x) ==
    LET k == CHOOSE i \in x : \A j \in x : i <= j
    IN  (x \ {k}) \cup (0..(k - 1))

\* a & b
BitAnd(a, b) == a \cap b

\* uint8(x), uint48(x), uint160(x): the conversion keeps the low bits
uint(x, bits) == {i \in x : i < bits}

\* mutant of shiftAndParse: the shifted word is not masked
shiftAndParseUnmasked(data, shiftBits, variableBits) == Shr(data, shiftBits)

\* return (data >> shiftBits) & ((1 << variableBits) - 1); the literal 1 is
\* shifted as a uint256 and variableBits is a uint8, so 1 << variableBits
\* is not 0
shiftAndParse(data, shiftBits, variableBits) ==
    BitAnd(Shr(data, shiftBits), Decrement(Shl({0}, variableBits)))

\* the record of a call and of the values it returned; the fields a call does
\* not return are 0 or false
NoCall ==
    [fn |-> "none", nonce |-> {}, epoch |-> {}, attesterId |-> {},
     revealNonce |-> FALSE, chainId |-> {},
     shiftBits |-> 0, variableBits |-> 0, value |-> {}]

\* decodeEpochKeyControl(control): accBits runs over 0, 8, 56, 216, 217, and
\* no sum leaves uint8
decodeEpochKeyControl(control) ==
    LET nonceBits      == 8
        epochBits      == 48
        attesterIdBits == 160
        revealNonceBit == 1
        chainIdBits    == 36
        accBits0       == 0
        accBits1       == accBits0 + nonceBits
        accBits2       == accBits1 + epochBits
        accBits3       == accBits2 + attesterIdBits
        accBits4       == accBits3 + revealNonceBit
    IN  [NoCall EXCEPT
           !.fn          = "decodeEpochKeyControl",
           !.nonce       = uint(shiftAndParse(control, accBits0, nonceBits), 8),
           !.epoch       = uint(shiftAndParse(control, accBits1, epochBits), 48),
           !.attesterId  = uint(shiftAndParse(control, accBits2, attesterIdBits), 160),
           !.revealNonce = (shiftAndParse(control, accBits3, revealNonceBit) # {}),
           !.chainId     = uint(shiftAndParse(control, accBits4, chainIdBits), 48)]

\* a call of the public function decodeEpochKeyControl with the word
CallDecodeEpochKeyControl ==
    /\ returned.fn = "none"
    /\ returned' = decodeEpochKeyControl(calldata)
    /\ UNCHANGED <<chain, head, store, gst, pc, latestBlock, latestProcessed,
                   newLatest, batch, invoked, commits, emitted,
                   stopRequested, calldata>>

\* a call of the public function shiftAndParse with the word, with a shift and
\* a width of those of the decoder, or the width 0
CallShiftAndParse ==
    /\ returned.fn = "none"
    /\ \E shiftBits \in {0, 8, 56, 216, 217} :
       \E variableBits \in {0, 1, 8, 36, 48, 160} :
          returned' = [NoCall EXCEPT
              !.fn = "shiftAndParse",
              !.shiftBits = shiftBits, !.variableBits = variableBits,
              !.value = shiftAndParse(calldata, shiftBits, variableBits)]
    /\ UNCHANGED <<chain, head, store, gst, pc, latestBlock, latestProcessed,
                   newLatest, batch, invoked, commits, emitted,
                   stopRequested, calldata>>

(***************************************************************************)
(* The chain.  The contract ends epochs in sequence, numbers the proofs it *)
(* indexes in sequence and signs an identity up once; it verifies no proof.*)
(***************************************************************************)
IsProofTopic(t) ==
    t \in {"IndexedEpochKeyProof", "IndexedReputationProof",
           "IndexedUserSignedUpProof", "IndexedStartedTransitionProof",
           "IndexedProcessedAttestationsProof", "IndexedUserStateTransitionProof"}

\* Unirep.currentEpoch after the logs of c
ChainEpoch(c) == 1 + Cardinality({i \in 1..Len(c) : c[i].topic = "EpochEnded"})

\* the index the contract gives the next proof
NextProofIndex(c) == 1 + Cardinality({i \in 1..Len(c) : IsProofTopic(c[i].topic)})

Log(e, blockNumber, transactionIndex, logIndex) ==
    [blockNumber |-> blockNumber, transactionIndex |-> transactionIndex,
     logIndex |-> logIndex] @@ e

\* the logs of the block being mined, which no query returns yet
Pending == SelectSeq(chain, LAMBDA e : e.blockNumber = head + 1)

\* the contract emits e in the block being mined, in the transaction of the
\* previous log of the block or in a new one
Emit(e, sameTx) ==
    /\ head < MaxBlock
    /\ Len(chain) < MaxLogs
    /\ chain' = Append(chain,
          IF Pending = <<>> THEN Log(e, head + 1, 0, 0)
          ELSE Log(e, head + 1,
                   Last(Pending).transactionIndex + (IF sameTx THEN 0 ELSE 1),
                   Last(Pending).logIndex + 1))
    /\ UNCHANGED <<head, store, gst, pc, latestBlock, latestProcessed,
                   newLatest, batch, invoked, commits, emitted,
                   stopRequested, calldata, returned>>

\* the block being mined is sealed: provider.getBlockNumber() grows by one
NewBlock ==
    /\ head < MaxBlock
    /\ head' = head + 1
    /\ UNCHANGED <<chain, store, gst, pc, latestBlock, latestProcessed,
                   newLatest, batch, invoked, commits, emitted,
                   stopRequested, calldata, returned>>

Init ==
    /\ chain = <<>>
    /\ head = 0
    /\ store = EmptyStore
    /\ gst = <<>>
    /\ pc = "init"
    /\ latestBlock = 0
    /\ latestProcessed = 0
    /\ newLatest = 0
    /\ batch = <<>>
    /\ invoked = <<>>
    /\ commits = <<>>
    /\ emitted = <<>>
    /\ stopRequested = FALSE
    /\ calldata = {}
    /\ returned = NoCall


(***************************************************************************)
(* Events the contract emits                                               *)
(***************************************************************************)
Ids == {1, 2}

UserSignedUp(epoch, idCommitment) ==
    [NoArgs EXCEPT !.topic = "UserSignedUp", !.epoch = epoch,
                   !.idCommitment = idCommitment, !.attesterId = 1]

EpochEnded(epoch) == [NoArgs EXCEPT !.topic = "EpochEnded", !.epoch = epoch]

AttestationSubmitted(epoch, epochKey, toProofIndex, fromProofIndex, attHash) ==
    [NoArgs EXCEPT !.topic = "AttestationSubmitted", !.epoch = epoch,
                   !.epochKey = epochKey, !.toProofIndex = toProofIndex,
                   !.fromProofIndex = fromProofIndex, !.attHash = attHash]

SignedUpIds(c) == {c[i].idCommitment : i \in {j \in 1..Len(c) : c[j].topic = "UserSignedUp"}}

(***************************************************************************)
(* Spec: the polling loop over MaxBlock blocks of MaxLogs logs in all.  The *)
(* contract signs users up, ends epochs and records attestations whose     *)
(* toProofIndex names no proof of the epoch (the handler throws).          *)
(***************************************************************************)
SyncEvents(c) ==
    {UserSignedUp(ChainEpoch(c), id) : id \in Ids \ SignedUpIds(c)}
        \cup {EpochEnded(ChainEpoch(c))}
        \cup {AttestationSubmitted(ChainEpoch(c), 1, 1, 0, 1)}

EmitSync == \E e \in SyncEvents(chain) : \E sameTx \in BOOLEAN : Emit(e, sameTx)

Next == EmitSync \/ NewBlock \/ Start \/ BlockNotify \/ Sleep \/ Poll
            \/ ProcessEvent \/ FinishBatch \/ NewSynchronizer

Spec == Init /\ [][Next]_vars

(***************************************************************************)
(* The specifications below are about what the handlers write.  Their      *)
(* contract emits one log per block, and emits it when the Synchronizer    *)
(* has caught up with the chain: what a handler writes depends on the logs *)
(* handled before it and on the restarts, not on how polls cut the log.    *)
(***************************************************************************)
CaughtUp == pc = "loop" /\ latestProcessed = latestBlock /\ latestBlock = head

EmitBlock(e) ==
    /\ CaughtUp
    /\ chain' = Append(chain, Log(e, head + 1, 0, 0))
    /\ head' = head + 1
    /\ UNCHANGED <<store, gst, pc, latestBlock, latestProcessed, newLatest,
                   batch, invoked, commits, emitted,
                   stopRequested, calldata, returned>>

\* the leaf and the tree root of the epoch whose only signup is idCommitment
SignUpLeaf(idCommitment) ==
    hashLeftRight(idCommitment, computeInitUserStateRoot(1, 0))

RootOfOne(idCommitment) == IMTRoot(<<SignUpLeaf(idCommitment)>>)

IndexedEpochKeyProof(proofIndex, epoch, verify, globalStateTree) ==
    [NoArgs EXCEPT !.topic = "IndexedEpochKeyProof", !.proofIndex = proofIndex,
                   !.epoch = epoch, !.verify = verify,
                   !.globalStateTree = globalStateTree]

IndexedReputationProof(proofIndex, epoch, verify, globalStateTree, repNullifiers) ==
    [NoArgs EXCEPT !.topic = "IndexedReputationProof", !.proofIndex = proofIndex,
                   !.epoch = epoch, !.verify = verify,
                   !.globalStateTree = globalStateTree,
                   !.nullifiers = repNullifiers]

\* the attestations of the chain are told apart by their hash
NextAttHash(c) ==
    1 + Cardinality({i \in 1..Len(c) : c[i].topic = "AttestationSubmitted"})

(***************************************************************************)
(* SpecAtt: proofs, attestations and epoch ends, after the signup of       *)
(* identity 1.  A proof is an epoch-key proof, verified or not, or a       *)
(* reputation proof with a pair of nullifiers; an attestation goes to      *)
(* epoch key 1, names one of the first two proofs as toProof and no proof  *)
(* or proof 1 as fromProof, and is of the current epoch or, with toProof  *)
(* 1, of the epoch before.                                                 *)
(***************************************************************************)
AttEvents(c) ==
    IF c = <<>> THEN {UserSignedUp(1, 1)}
    ELSE {EpochEnded(ChainEpoch(c))}
        \cup {IndexedEpochKeyProof(NextProofIndex(c), ChainEpoch(c), v, RootOfOne(1)) :
                 v \in BOOLEAN}
        \cup {IndexedReputationProof(NextProofIndex(c), ChainEpoch(c), TRUE,
                                     RootOfOne(1), ns) : ns \in {<<1, 0>>, <<1, 1>>}}
        \cup {AttestationSubmitted(ChainEpoch(c), 1, to, from, NextAttHash(c)) :
                 to \in {i \in 1..2 : i < NextProofIndex(c)},
                 from \in {i \in 0..1 : i < NextProofIndex(c)}}
        \cup (IF ChainEpoch(c) > 1 /\ NextProofIndex(c) > 1
              THEN {AttestationSubmitted(ChainEpoch(c) - 1, 1, 1, 0, NextAttHash(c))}
              ELSE {})

EmitAtt == Len(chain) < MaxLogsAtt /\ \E e \in AttEvents(chain) : EmitBlock(e)

NextAtt == EmitAtt \/ Start \/ BlockNotify \/ Sleep \/ Poll \/ ProcessEvent
              \/ FinishBatch \/ NewSynchronizer

SpecAtt == Init /\ [][NextAtt]_vars

(***************************************************************************)
(* SpecGST: signups, epoch ends and user state transitions.  The identities*)
(* sign up in the order of their numbers.  After the first epoch the       *)
(* contract records transitions of identity 1 from epoch 1: a start        *)
(* transition proof, then a processed attestations proof or none, then the *)
(* user state transition proof, verified or not, that names them, and with *)
(* it the UserStateTransitioned log of its leaf.  A transition may be      *)
(* submitted again, with the proofs of the transition before it.           *)
(***************************************************************************)
IndexedStartedTransitionProof(proofIndex, blindedUserState, globalStateTree, blindedHashChain, verify) ==
    [NoArgs EXCEPT !.topic = "IndexedStartedTransitionProof",
                   !.proofIndex = proofIndex,
                   !.blindedUserState = blindedUserState,
                   !.globalStateTree = globalStateTree,
                   !.blindedHashChain = blindedHashChain, !.verify = verify]

IndexedProcessedAttestationsProof(proofIndex, inputBlindedUserState, outputBlindedUserState, outputBlindedHashChain, verify) ==
    [NoArgs EXCEPT !.topic = "IndexedProcessedAttestationsProof",
                   !.proofIndex = proofIndex,
                   !.inputBlindedUserState = inputBlindedUserState,
                   !.outputBlindedUserState = outputBlindedUserState,
                   !.outputBlindedHashChain = outputBlindedHashChain,
                   !.verify = verify]

IndexedUserStateTransitionProof(proofIndex, proof, proofIndexRecords, verify) ==
    [NoArgs EXCEPT !.topic = "IndexedUserStateTransitionProof",
                   !.proofIndex = proofIndex, !.proof = proof,
                   !.proofIndexRecords = proofIndexRecords, !.verify = verify]

UserStateTransitioned(epoch, leaf, proofIndex) ==
    [NoArgs EXCEPT !.topic = "UserStateTransitioned", !.epoch = epoch,
                   !.leaf = leaf, !.proofIndex = proofIndex]

\* the arguments of the transition proof of identity 1 from epoch 1, where
\* it was the first to sign up and no epoch key was attested to
TransitionProofArgs ==
    [ newGlobalStateTreeLeaf |-> hashLeftRight(1, <<1, 1>>),
      epkNullifiers          |-> <<1>>,
      transitionFromEpoch    |-> 1,
      blindedUserStates      |-> <<1, 2>>,
      fromGlobalStateTree    |-> RootOfOne(1),
      blindedHashChains      |-> <<1>>,
      fromEpochTree          |-> genNewSMT ]

GSTEvents(c) ==
    LET last == IF c = <<>> THEN "" ELSE Last(c).topic
        n    == NextProofIndex(c)
    IN  IF last = "IndexedUserStateTransitionProof"
        THEN {UserStateTransitioned(ChainEpoch(c),
                                    Last(c).proof.newGlobalStateTreeLeaf,
                                    Last(c).proofIndex)}
        ELSE IF last = "IndexedStartedTransitionProof"
        THEN {IndexedProcessedAttestationsProof(n, 1, 2, 1, TRUE),
              IndexedUserStateTransitionProof(n, TransitionProofArgs,
                                              <<n - 1>>, TRUE)}
        ELSE IF last = "IndexedProcessedAttestationsProof"
        THEN {IndexedUserStateTransitionProof(n, TransitionProofArgs,
                                              <<n - 2, n - 1>>, v) :
                 v \in BOOLEAN}
        ELSE {UserSignedUp(ChainEpoch(c), id) :
                 id \in {i \in Ids : i = Cardinality(SignedUpIds(c)) + 1}}
            \cup {EpochEnded(ChainEpoch(c))}
            \cup (IF ChainEpoch(c) > 1
                  THEN {IndexedStartedTransitionProof(n, 1, RootOfOne(1), 1, TRUE)}
                  ELSE {})
            \cup (IF last = "UserStateTransitioned"
                  THEN {IndexedUserStateTransitionProof(n, TransitionProofArgs,
                            c[Len(c) - 1].proofIndexRecords, TRUE)}
                  ELSE {})

EmitGST == Len(chain) < MaxLogsGST /\ \E e \in GSTEvents(chain) : EmitBlock(e)

NextGST == EmitGST \/ Start \/ BlockNotify \/ Sleep \/ Poll \/ ProcessEvent
              \/ FinishBatch \/ NewSynchronizer

SpecGST == Init /\ [][NextGST]_vars

(***************************************************************************)
(* SpecProof: after the signup of identity 1, proofs of the six kinds,     *)
(* verified or not, that name the tree root of that signup or a root no    *)
(* epoch has, and epoch ends.  The contract emits UserStateTransitioned    *)
(* with a user state transition proof.                                     *)
(***************************************************************************)
IndexedUserSignedUpProof(proofIndex, epoch, verify, globalStateTree) ==
    [NoArgs EXCEPT !.topic = "IndexedUserSignedUpProof", !.proofIndex = proofIndex,
                   !.epoch = epoch, !.verify = verify,
                   !.globalStateTree = globalStateTree]

ProofEvents(c) ==
    LET n  == NextProofIndex(c)
        ep == ChainEpoch(c)
    IN  IF c = <<>> THEN {UserSignedUp(1, 1)}
        ELSE IF Last(c).topic = "IndexedUserStateTransitionProof"
        THEN {UserStateTransitioned(ep, Last(c).proof.newGlobalStateTreeLeaf,
                                    Last(c).proofIndex)}
        ELSE {EpochEnded(ep)} \cup UNION {
                 {IndexedEpochKeyProof(n, ep, v, g),
                  IndexedUserSignedUpProof(n, ep, v, g),
                  IndexedReputationProof(n, ep, v, g, <<1, 0>>),
                  IndexedStartedTransitionProof(n, 1, g, 1, v),
                  IndexedProcessedAttestationsProof(n, 1, 2, 1, v),
                  IndexedUserStateTransitionProof(n,
                      [TransitionProofArgs EXCEPT !.fromGlobalStateTree = g],
                      <<1>>, v)} :
                 v \in BOOLEAN, g \in {RootOfOne(1), RootOfOne(2)}}

EmitProof == Len(chain) < MaxLogsProof /\ \E e \in ProofEvents(chain) : EmitBlock(e)

NextProof == EmitProof \/ Start \/ BlockNotify \/ Sleep \/ Poll \/ ProcessEvent
                \/ FinishBatch \/ NewSynchronizer

SpecProof == Init /\ [][NextProof]_vars

(***************************************************************************)
(* SpecErr: the polling loop of Spec where things go wrong.  The contract  *)
(* signs users up and ends epochs, the node also returns logs of a topic   *)
(* that has no handler, and the database may fail to commit a transaction. *)
(* LiveErr is the one Synchronizer of SpecErr that nobody starts again,    *)
(* and that takes a step of its loop when it can.                          *)
(***************************************************************************)
UnrecognizedEvent == [NoArgs EXCEPT !.topic = "Unrecognized"]

ErrEvents(c) ==
    {UserSignedUp(ChainEpoch(c), id) : id \in Ids \ SignedUpIds(c)}
        \cup {EpochEnded(ChainEpoch(c))}
        \cup {UnrecognizedEvent}

EmitErr == \E e \in ErrEvents(chain) : \E sameTx \in BOOLEAN : Emit(e, sameTx)

NextErr == EmitErr \/ NewBlock \/ Start \/ BlockNotify \/ Sleep \/ Poll
              \/ ProcessEvent \/ ProcessEventStoreFails \/ FinishBatch
              \/ NewSynchronizer

SpecErr == Init /\ [][NextErr]_vars

NextLive == EmitErr \/ NewBlock \/ Start \/ BlockNotify \/ Sleep \/ Poll
               \/ ProcessEvent \/ ProcessEventStoreFails \/ FinishBatch

LiveErr ==
    /\ Init
    /\ [][NextLive]_vars
    /\ WF_vars(Start \/ Poll \/ ProcessEvent \/ FinishBatch)

(***************************************************************************)
(* SpecStop: the polling loop of Spec, one Synchronizer, and a caller who  *)
(* at some point wants it to stop.  The class has no method and no field   *)
(* for that, and the loop of startDaemon is for (;;) without a condition:  *)
(* the request changes nothing the Synchronizer reads.                     *)
(***************************************************************************)
RequestStop ==
    /\ pc # "init"
    /\ ~stopRequested
    /\ stopRequested' = TRUE
    /\ UNCHANGED <<chain, head, store, gst, pc, latestBlock, latestProcessed,
                   newLatest, batch, invoked, commits, emitted,
                   calldata, returned>>

NextStop == EmitSync \/ NewBlock \/ Start \/ BlockNotify \/ Sleep \/ Poll
               \/ ProcessEvent \/ FinishBatch \/ RequestStop

SpecStop == Init /\ [][NextStop]_vars

(***************************************************************************)
(* SpecIdx: attestations at the positions logs have in blocks shared with  *)
(* other contracts.  After the signup of identity 1 and a verified epoch   *)
(* key proof the contract records attestations to epoch key 1 and ends the *)
(* epoch; the one Unirep log of a block is the first log of the block or   *)
(* its log MaxLogIndex.                                                    *)
(***************************************************************************)
MaxLogsIdx == 5

MaxLogIndex == 10

IdxEvents(c) ==
    IF c = <<>> THEN {UserSignedUp(1, 1)}
    ELSE IF Len(c) = 1
    THEN {IndexedEpochKeyProof(1, 1, TRUE, RootOfOne(1))}
    ELSE {EpochEnded(ChainEpoch(c))}
        \cup {AttestationSubmitted(ChainEpoch(c), 1, 1, 0, NextAttHash(c))}

\* the contract emits e as log logIndex of the next block
EmitBlockAt(e, logIndex) ==
    /\ CaughtUp
    /\ chain' = Append(chain, Log(e, head + 1, 0, logIndex))
    /\ head' = head + 1
    /\ UNCHANGED <<store, gst, pc, latestBlock, latestProcessed, newLatest,
                   batch, invoked, commits, emitted, stopRequested, calldata, returned>>

EmitIdx ==
    /\ Len(chain) < MaxLogsIdx
    /\ \E e \in IdxEvents(chain) :
          \E logIndex \in {0, MaxLogIndex} : EmitBlockAt(e, logIndex)

NextIdx == EmitIdx \/ Start \/ BlockNotify \/ Sleep \/ Poll \/ ProcessEvent
              \/ FinishBatch \/ NewSynchronizer

SpecIdx == Init /\ [][NextIdx]_vars

(***************************************************************************)
(* SpecEpoch: logs whose epoch is not the current epoch.  The node returns *)
(* signups, attestations and user state transitions that carry the current *)
(* epoch of the contract or the epoch before it; the transitions are those *)
(* of identity 1 from epoch 1, with a start transition proof, a processed  *)
(* attestations proof and the user state transition proof that names them. *)
(***************************************************************************)
MaxLogsEpoch == 6

\* the current epoch of the contract and, if there is one, the epoch before
EpochOrBefore(c) == {ep \in {ChainEpoch(c) - 1, ChainEpoch(c)} : ep >= 1}

EpochEvents(c) ==
    LET last == IF c = <<>> THEN "" ELSE Last(c).topic
        n    == NextProofIndex(c)
    IN  IF c = <<>> THEN {UserSignedUp(1, 1)}
        ELSE IF last = "IndexedUserStateTransitionProof"
        THEN {UserStateTransitioned(ep, Last(c).proof.newGlobalStateTreeLeaf,
                                    Last(c).proofIndex) : ep \in EpochOrBefore(c)}
        ELSE IF last = "IndexedStartedTransitionProof"
        THEN {IndexedProcessedAttestationsProof(n, 1, 2, 1, TRUE)}
        ELSE IF last = "IndexedProcessedAttestationsProof"
        THEN {IndexedUserStateTransitionProof(n, TransitionProofArgs,
                                              <<n - 2, n - 1>>, TRUE)}
        ELSE {UserSignedUp(ep, 2) : ep \in EpochOrBefore(c)}
            \cup {EpochEnded(ChainEpoch(c))}
            \cup (IF n = 1
                  THEN {IndexedEpochKeyProof(n, ChainEpoch(c), TRUE, RootOfOne(1))}
                  ELSE {AttestationSubmitted(ep, 1, 1, 0, NextAttHash(c)) :
                           ep \in EpochOrBefore(c)})
            \cup (IF ChainEpoch(c) > 1
                  THEN {IndexedStartedTransitionProof(n, 1, RootOfOne(1), 1, TRUE)}
                  ELSE {})

EmitEpoch == Len(chain) < MaxLogsEpoch /\ \E e \in EpochEvents(chain) : EmitBlock(e)

NextEpoch == EmitEpoch \/ Start \/ BlockNotify \/ Sleep \/ Poll \/ ProcessEvent
                \/ FinishBatch \/ NewSynchronizer

SpecEpoch == Init /\ [][NextEpoch]_vars

(***************************************************************************)
(* SpecUST: the user state transitions of identity 1 from epoch 1, good    *)
(* and bad.  After the signup and the end of epoch 1 the contract records  *)
(* a start transition proof (verified or not, or of another blinded user   *)
(* state), a processed attestations proof (verified or not, or of another  *)
(* input state or hash chain), the user state transition proof that names  *)
(* the two (verified or not, or of another epoch tree root) and the        *)
(* UserStateTransitioned log of its leaf.  The transition proof may then   *)
(* be submitted again.                                                     *)
(***************************************************************************)
MaxLogsUST == 8

\* Unirep.updateUserStateRoot: with the user state transition proof it has
\* indexed last, the contract emits UserStateTransitioned for the current
\* epoch with the new leaf of that proof and its index
updateUserStateRoot(c) ==
    UserStateTransitioned(ChainEpoch(c), Last(c).proof.newGlobalStateTreeLeaf,
                          Last(c).proofIndex)

\* the root of an epoch tree that is not the tree of epoch 1
OtherEpochTree == SMTUpdate(genNewSMT, 1, <<1>>)

USTEvents(c) ==
    LET last == IF c = <<>> THEN "" ELSE Last(c).topic
        n    == NextProofIndex(c)
    IN  IF c = <<>> THEN {UserSignedUp(1, 1)}
        ELSE IF last = "UserSignedUp" THEN {EpochEnded(1)}
        ELSE IF last = "EpochEnded"
        THEN {IndexedStartedTransitionProof(n, 1, RootOfOne(1), 1, TRUE),
              IndexedStartedTransitionProof(n, 1, RootOfOne(1), 1, FALSE),
              IndexedStartedTransitionProof(n, 3, RootOfOne(1), 1, TRUE)}
        ELSE IF last = "IndexedStartedTransitionProof"
        THEN {IndexedProcessedAttestationsProof(n, 1, 2, 1, TRUE),
              IndexedProcessedAttestationsProof(n, 1, 2, 1, FALSE),
              IndexedProcessedAttestationsProof(n, 3, 2, 1, TRUE),
              IndexedProcessedAttestationsProof(n, 1, 2, 3, TRUE)}
        ELSE IF last = "IndexedProcessedAttestationsProof"
        THEN {IndexedUserStateTransitionProof(n, TransitionProofArgs,
                                              <<n - 2, n - 1>>, TRUE),
              IndexedUserStateTransitionProof(n, TransitionProofArgs,
                                              <<n - 2, n - 1>>, FALSE),
              IndexedUserStateTransitionProof(n,
                  [TransitionProofArgs EXCEPT !.fromEpochTree = OtherEpochTree],
                  <<n - 2, n - 1>>, TRUE)}
        ELSE IF last = "IndexedUserStateTransitionProof"
        THEN {updateUserStateRoot(c)}
        ELSE {IndexedUserStateTransitionProof(n, TransitionProofArgs,
                                              c[Len(c) - 1].proofIndexRecords, TRUE)}

EmitUST == Len(chain) < MaxLogsUST /\ \E e \in USTEvents(chain) : EmitBlock(e)

NextUST == EmitUST \/ Start \/ BlockNotify \/ Sleep \/ Poll \/ ProcessEvent
              \/ FinishBatch \/ NewSynchronizer

SpecUST == Init /\ [][NextUST]_vars

(***************************************************************************)
(* SpecControl: calls of the two public pure functions of                  *)
(* BaseVerifierHelper.  The word of a call has any of the first and last   *)
(* bits of the ranges the decoder reads set, and of the bits above them.   *)
(***************************************************************************)
InitControl ==
    /\ chain = <<>>
    /\ head = 0
    /\ store = EmptyStore
    /\ gst = <<>>
    /\ pc = "init"
    /\ latestBlock = 0
    /\ latestProcessed = 0
    /\ newLatest = 0
    /\ batch = <<>>
    /\ invoked = <<>>
    /\ commits = <<>>
    /\ emitted = <<>>
    /\ stopRequested = FALSE
    /\ calldata \in SUBSET {0, 7, 8, 55, 56, 215, 216, 217, 252, 253, 255}
    /\ returned = NoCall

NextControl == CallDecodeEpochKeyControl \/ CallShiftAndParse

SpecControl == InitControl /\ [][NextControl]_vars

(***************************************************************************)
(* LiveSync: the polling loop of one Synchronizer on a chain whose logs no *)
(* handler throws on, signups and epoch ends.  The Synchronizer is started,*)
(* every await of its loop resumes, and the provider delivers its block    *)
(* notifications.                                                          *)
(***************************************************************************)
LiveEvents(c) ==
    {UserSignedUp(ChainEpoch(c), id) : id \in Ids \ SignedUpIds(c)}
        \cup {EpochEnded(ChainEpoch(c))}

EmitLive == \E e \in LiveEvents(chain) : \E sameTx \in BOOLEAN : Emit(e, sameTx)

NextLiveSync == EmitLive \/ NewBlock \/ Start \/ BlockNotify \/ Sleep \/ Poll
                   \/ ProcessEvent \/ FinishBatch

LiveSync ==
    /\ Init
    /\ [][NextLiveSync]_vars
    /\ WF_vars(Start)
    /\ WF_vars(BlockNotify)
    /\ WF_vars(Poll)
    /\ WF_vars(ProcessEvent)
    /\ WF_vars(FinishBatch)

(***************************************************************************)
(* Claims                                                                  *)
(***************************************************************************)
Committed(p) == p \in Range(commits)

\* C1: over the polls of one Synchronizer, the handlers are invoked in strictly
\* ascending (blockNumber, transactionIndex, logIndex) order, and when a
\* handler is invoked the transaction of every earlier log of the chain has
\* committed.
C1_HandlersInOrder ==
    /\ \A i, j \in 1..Len(invoked) : i < j => PosLess(invoked[i], invoked[j])
    /\ \A p \in Range(invoked) : \A e \in Range(chain) :
          PosLess(Pos(e), p) => Committed(Pos(e))

\* C1 witness: a second poll handled a log, after a first poll handled two
\* logs of one block
C1_Witness ==
    /\ Len(invoked) >= 3
    /\ invoked[1][1] = invoked[2][1]
    /\ invoked[3][1] > invoked[2][1]
    /\ store.SynchronizerState # <<>>
    /\ Head(store.SynchronizerState).latestCompleteBlock = invoked[1][1]


CommittedLogs(topics) ==
    {e \in Range(chain) : e.topic \in topics /\ Committed(Pos(e))}

\* C2: over the lifetime of a store, whatever the polls and the restarts, the
\* transaction of a log commits at most once, every log about to be handled
\* is strictly after the persisted cursor, and there are no more GSTLeaf rows
\* than committed logs that insert a leaf.
C2_AtMostOnce ==
    /\ \A i, j \in 1..Len(commits) : i < j => commits[i] # commits[j]
    /\ \A e \in Range(batch) : PosLess(Cursor(store), Pos(e))
    /\ Len(store.GSTLeaf) <=
           Cardinality(CommittedLogs({"UserSignedUp", "UserStateTransitioned"}))

\* C2 witness: a new Synchronizer on a used store polled from block 1 again and
\* retained a log of the block the cursor is in
C2_Witness ==
    /\ pc = "batch"
    /\ invoked = <<>>
    /\ commits # <<>>
    /\ store.GSTLeaf # <<>>
    /\ batch # <<>>
    /\ Head(batch).blockNumber = Cursor(store)[1]

\* C3: a handler that throws persists nothing, not even the writes it queued
\* before the throw, and the cursor stays where it was; a transaction that
\* commits leaves the cursor at the position of its log.
C3_TransactionAtomic ==
    [][ /\ (pc = "batch" /\ pc' = "dead") => store' = store
        /\ (commits' # commits) => Cursor(store') = Last(commits') ]_vars

\* C3 witness: the handler of an attestation threw after it queued the
\* Attestation row, and an earlier log had committed
C3_Witness ==
    /\ pc = "dead"
    /\ commits # <<>>
    /\ Cursor(store) = Last(commits)
    /\ invoked # <<>>
    /\ ~Committed(Last(invoked))
    /\ \E e \in Range(chain) :
          Pos(e) = Last(invoked) /\ e.topic = "AttestationSubmitted"



\* C4: every Attestation row with valid = true names, by its proofIndex, a
\* Proof row of its epoch that is valid, and if its event carried a non-zero
\* fromProofIndex, that Proof row is valid and spent.
C4_ValidAttestationHasValidProof ==
    \A a \in Range(store.Attestation) :
        a.valid = "true" =>
            /\ FindProof(store, a.epoch, a.proofIndex) # <<>>
            /\ Head(FindProof(store, a.epoch, a.proofIndex)).valid
            /\ a.fromProofIndex # 0 =>
                  /\ FindProof(store, a.epoch, a.fromProofIndex) # <<>>
                  /\ Head(FindProof(store, a.epoch, a.fromProofIndex)).valid
                  /\ Head(FindProof(store, a.epoch, a.fromProofIndex)).spent

\* C5: no two Nullifier rows with confirmed = true carry the same nullifier.
C5_ConfirmedNullifiersUnique ==
    \A i, j \in 1..Len(store.Nullifier) :
        (/\ i < j
         /\ store.Nullifier[i].confirmed
         /\ store.Nullifier[j].confirmed)
            => store.Nullifier[i].nullifier # store.Nullifier[j].nullifier

\* C8: at most one Epoch row has sealed = false.
C8_AtMostOneUnsealedEpoch ==
    Count(store.Epoch, [sealed |-> FALSE]) <= 1

\* C8 witness: two epochs were ended, the third is the unsealed one
C8_Witness ==
    /\ Count(store.Epoch, [sealed |-> TRUE]) = 2
    /\ Count(store.Epoch, [sealed |-> FALSE]) = 1

\* C9: for every sealed epoch, whatever was handled since its EpochEnded, the
\* root of genEpochTree is the epochRoot persisted on its Epoch row.
C9_EpochTreeRoundTrip ==
    \A r \in Range(store.Epoch) :
        r.sealed => r.epochRoot = <<genEpochTree(store, r.number)>>

\* C9 witness: an epoch was sealed with a leaf in its epoch tree, and the
\* transaction of a later log has committed
C9_Witness ==
    \E r \in Range(store.Epoch) :
        /\ r.sealed
        /\ r.epochRoot # <<genNewSMT>>
        /\ \E e \in Range(chain) :
              /\ e.topic = "EpochEnded" /\ e.epoch = r.number
              /\ PosLess(Pos(e), Cursor(store))

\* the GSTLeaf rows of epoch e, in insertion order
LeavesOfEpoch(e) == FindMany(store.GSTLeaf, [epoch |-> e])

EpochsWithLeaves == {r.epoch : r \in Range(store.GSTLeaf)}

\* C6: for every epoch the GSTLeaf rows carry the indices 0 .. count - 1, each
\* once, every row having got the count of the rows before it; the rows of an
\* epoch are those of the committed signups and transitions of the epoch, one
\* row for a log.
C6_LeafIndicesContiguous ==
    \A e \in EpochsWithLeaves :
        /\ \A i \in 1..Len(LeavesOfEpoch(e)) : LeavesOfEpoch(e)[i].index = i - 1
        /\ {r.index : r \in Range(LeavesOfEpoch(e))} =
               0..(Count(store.GSTLeaf, [epoch |-> e]) - 1)
        /\ \A i, j \in 1..Len(LeavesOfEpoch(e)) :
              i < j => LeavesOfEpoch(e)[i].transactionHash #
                           LeavesOfEpoch(e)[j].transactionHash
        /\ \A r \in Range(LeavesOfEpoch(e)) :
              \E l \in CommittedLogs({"UserSignedUp", "UserStateTransitioned"}) :
                  l.epoch = e /\ TxHash(l) = r.transactionHash
        /\ \A l \in CommittedLogs({"UserSignedUp"}) :
              l.epoch = e =>
                  \E r \in Range(LeavesOfEpoch(e)) : TxHash(l) = r.transactionHash

\* C6 witness: the second epoch holds the leaf of an accepted transition and
\* the leaf of a signup, the first epoch a leaf of its own
C6_Witness ==
    /\ Len(LeavesOfEpoch(1)) >= 1
    /\ Len(LeavesOfEpoch(2)) = 2
    /\ \E r \in Range(LeavesOfEpoch(2)) :
          r.hash = TransitionProofArgs.newGlobalStateTreeLeaf
    /\ \E r \in Range(LeavesOfEpoch(2)) : r.hash = SignUpLeaf(2)

\* C7: when a transaction that inserted a GST leaf has committed, the root of
\* the in-memory tree is the root of the last GSTRoot row of the current
\* epoch and the root of the tree rebuilt from the GSTLeaf rows of the
\* current epoch.
C7_TreeRootMatchesStore ==
    [][ Len(store'.GSTLeaf) > Len(store.GSTLeaf) =>
          LET epoch == loadCurrentEpoch(store').number
              roots == FindMany(store'.GSTRoot, [epoch |-> epoch])
          IN  /\ roots # <<>>
              /\ IMTRoot(gst') = Last(roots).root
              /\ IMTRoot(gst') = genGSTree(store', epoch) ]_vars

\* the root of the last GSTRoot row of epoch e, of the empty tree if none
FinalGSTRoot(e) ==
    LET roots == FindMany(store.GSTRoot, [epoch |-> e])
    IN  IF roots = <<>> THEN IMTRoot(<<>>) ELSE Last(roots).root

\* C10: for every sealed epoch, whatever was handled since its EpochEnded,
\* the root of genGSTree is the last GST root persisted for the epoch.
C10_GSTreeRoundTrip ==
    \A r \in Range(store.Epoch) :
        r.sealed => genGSTree(store, r.number) = FinalGSTRoot(r.number)

\* the store but for latestCompleteBlock, which tells where the polls ended
WithoutCompleteBlock(st) ==
    [st EXCEPT !.SynchronizerState = Update(@, <<>>, [latestCompleteBlock |-> 0])]

\* every commit so far was made by the running instance, on a store that was
\* fresh when it started
ReplayFromGenesis ==
    /\ pc # "init"
    /\ Len(commits) <= Len(invoked)
    /\ commits = SubSeq(invoked, 1, Len(commits))

\* C11: a replay from genesis into a fresh store leaves, whatever the polls
\* that cut the log, the store and the tree that handling the committed logs
\* one after the other in chain order leaves; the rows differ at most in
\* latestCompleteBlock while the replay runs, and not at all when it has
\* caught up with the chain.
C11_ReplayDeterministic ==
    ReplayFromGenesis =>
        LET r == processEvents(FreshStore, <<>>, SubSeq(chain, 1, Len(commits)))
        IN  /\ WithoutCompleteBlock(store) = WithoutCompleteBlock(r.db)
            /\ gst = r.gst
            /\ (pc = "loop" /\ latestProcessed = head) =>
                   Head(store.SynchronizerState).latestCompleteBlock = head

\* C11 witness: one poll has committed two logs of two blocks, which another
\* replay handles in two polls
C11_Witness ==
    /\ ReplayFromGenesis
    /\ pc = "batch"
    /\ Len(commits) = 2
    /\ commits[1][1] # commits[2][1]
    /\ Head(store.SynchronizerState).latestCompleteBlock = 0
    /\ store.GSTLeaf # <<>>

\* C12: a proof whose verification failed is stored with valid = false, and
\* an attestation whose toProof is a Proof row with valid = false is recorded
\* with valid = false and is never among getAttestations of its epoch key,
\* whatever was handled since.
C12_InvalidProofNeverHonored ==
    /\ \A e \in CommittedLogs({"IndexedEpochKeyProof", "IndexedReputationProof",
                                "IndexedUserSignedUpProof"}) :
          ~e.verify =>
              \A p \in Range(FindMany(store.Proof, [index |-> e.proofIndex])) :
                  ~p.valid
    /\ \A a \in Range(store.Attestation) :
          LET toProof == FindProof(store, a.epoch, a.proofIndex)
          IN  (toProof # <<>> /\ ~Head(toProof).valid) =>
                  /\ a.valid = "false"
                  /\ \A r \in Range(getAttestations(store, a.epochKey)) :
                        r.log # a.log

\* the non-zero epkNullifiers of the transition of the UserStateTransitioned
\* log e: those of the proof the contract indexed with it
USTNullifiers(e) ==
    LET l == CHOOSE l \in Range(chain) :
                 /\ l.topic = "IndexedUserStateTransitionProof"
                 /\ l.proofIndex = e.proofIndex
    IN  NonZero(l.proof.epkNullifiers)

\* the store but for the SynchronizerState row
WithoutState(st) == [st EXCEPT !.SynchronizerState = <<>>]

\* C13: handling a UserStateTransitioned log one of whose non-zero
\* epkNullifiers has a confirmed Nullifier row changes no row of GSTLeaf,
\* GSTRoot, Nullifier or any other table and leaves the in-memory tree as it
\* is; the cursor is all that changes, to the position of the log.
C13_DuplicateNullifierNoOp ==
    [][ (/\ Len(invoked') = Len(invoked) + 1
         /\ Head(batch).topic = "UserStateTransitioned"
         /\ \E r \in Range(store.Nullifier) :
               r.confirmed /\ r.nullifier \in Range(USTNullifiers(Head(batch))))
        => /\ WithoutState(store') = WithoutState(store)
           /\ gst' = gst
           /\ pc' # "dead" => Cursor(store') = Pos(Head(batch)) ]_vars

\* C13 witness: a transition was accepted and the same transition, submitted
\* again, was handled and left one leaf and one nullifier
C13_Witness ==
    /\ Cardinality(CommittedLogs({"UserStateTransitioned"})) = 2
    /\ Count(store.Nullifier, [nullifier |-> 1]) = 1
    /\ Len(LeavesOfEpoch(2)) = 1
    /\ LeavesOfEpoch(2)[1].hash = TransitionProofArgs.newGlobalStateTreeLeaf

\* is root a persisted GSTRoot of epoch in st
RootPersisted(st, root, epoch) ==
    \E r \in Range(st.GSTRoot) : r.epoch = epoch /\ r.root = root

\* has one of the non-zero nullifiers ns a confirmed row in st
Confirmed(st, ns) ==
    \E r \in Range(st.Nullifier) : r.confirmed /\ r.nullifier \in Range(NonZero(ns))

\* valid as the claim has it for the proofs that name a root and an epoch,
\* and for a processed attestations proof, which names no root
ValidWithRoot(e, st) ==
    CASE e.topic \in {"IndexedEpochKeyProof", "IndexedUserSignedUpProof"} ->
             e.verify /\ RootPersisted(st, e.globalStateTree, e.epoch)
      [] e.topic = "IndexedReputationProof" ->
             /\ e.verify /\ RootPersisted(st, e.globalStateTree, e.epoch)
             /\ ~Confirmed(st, e.nullifiers)
      [] e.topic = "IndexedUserStateTransitionProof" ->
             e.verify /\ RootPersisted(st, e.proof.fromGlobalStateTree,
                                       e.proof.transitionFromEpoch)
      [] OTHER -> e.verify

\* the handler of the proof log e committed: one more Proof row, that of e,
\* with the given valid
OneProofRow(e, valid) ==
    /\ Len(store'.Proof) = Len(store.Proof) + 1
    /\ SubSeq(store'.Proof, 1, Len(store.Proof)) = store.Proof
    /\ Last(store'.Proof).index = e.proofIndex
    /\ Last(store'.Proof).event = e.topic
    /\ Last(store'.Proof).valid = valid

ProofCommitted ==
    /\ Len(commits') = Len(commits) + 1
    /\ IsProofTopic(Head(batch).topic)

\* C14 as stated: every proof log persists one Proof row, and for a start
\* transition proof too valid is verify and the root it names being a
\* persisted GSTRoot.
C14_ProofRowValidity ==
    [][ ProofCommitted =>
          LET e == Head(batch)
          IN  OneProofRow(e,
                IF e.topic = "IndexedStartedTransitionProof"
                THEN e.verify /\ \E r \in Range(store.GSTRoot) :
                                     r.root = e.globalStateTree
                ELSE ValidWithRoot(e, store)) ]_vars

\* C14 amended: every proof log persists one Proof row, valid or not; valid
\* is verify and the named root being a persisted GSTRoot of the named epoch
\* for signup, epoch key, reputation (and no non-zero nullifier of it already
\* confirmed) and user state transition proofs, and verify alone for start
\* transition and processed attestations proofs.
C14_ProofRowValidityAmended ==
    [][ ProofCommitted => OneProofRow(Head(batch), ValidWithRoot(Head(batch), store))
      ]_vars

\* C14 witness: a verified start transition proof that names a root no epoch
\* has was stored, after a proof that was stored valid
C14_Witness ==
    /\ Len(store.Proof) = 2
    /\ store.Proof[1].valid
    /\ store.Proof[2].event = "IndexedStartedTransitionProof"
    /\ store.Proof[2].globalStateTree = RootOfOne(2)
    /\ store.Proof[2].valid

\* C15: over the polls and the restarts the persisted cursor never moves
\* back, moves strictly forward with every committed log, and
\* latestCompleteBlock never decreases.
C15_CursorMonotonic ==
    [][ /\ ~PosLess(Cursor(store'), Cursor(store))
        /\ Len(commits') > Len(commits) => PosLess(Cursor(store), Cursor(store'))
        /\ latestCompleteBlock(store') >= latestCompleteBlock(store) ]_vars

\* C15 witness: a Synchronizer started on a store whose cursor and
\* latestCompleteBlock had advanced has committed a log and completed a poll
C15_Witness ==
    /\ Len(commits) >= 2
    /\ Len(invoked) = 1
    /\ Last(invoked) = Cursor(store)
    /\ latestCompleteBlock(store) = 2
    /\ pc = "loop"
    /\ \E p \in Range(commits) : p[1] = 1

\* C16: the topic of a log is emitted only once its transaction has
\* committed, never for a log whose transaction failed, and the topics are
\* emitted in the order of the commits.
C16_EmitAfterCommit ==
    /\ Len(emitted) <= Len(commits)
    /\ \A i \in 1..Len(emitted) : emitted[i] = commits[i]

\* C16 witness: two topics were emitted, then the handler of a third log
\* threw and nothing was emitted for it
C16_Witness ==
    /\ Len(emitted) = 2
    /\ pc = "dead"
    /\ invoked # <<>>
    /\ Last(invoked) \notin Range(emitted)

\* the running instance hands the next log of the batch to its handler
Handled == Len(invoked') = Len(invoked) + 1

\* C17: handling a log whose topic has no handler persists nothing, leaves
\* the cursor and the tree where they were, emits nothing and ends the loop:
\* the instance handles no later log.
C17_UnknownTopicFatal ==
    [][ /\ (Handled /\ Head(batch).topic \notin KnownTopics) =>
              /\ store' = store
              /\ gst' = gst
              /\ emitted' = emitted
              /\ commits' = commits
              /\ pc' = "dead"
        /\ pc = "dead" => ~Handled ]_vars

\* C17 witness: after a commit the log of an unknown topic was handled, and
\* a later log of its block is left unhandled
C17_Witness ==
    /\ pc = "dead"
    /\ commits # <<>>
    /\ invoked # <<>>
    /\ \E e \in Range(chain) :
          /\ Pos(e) = Last(invoked)
          /\ e.topic \notin KnownTopics
          /\ \E l \in Range(chain) :
                l.blockNumber = e.blockNumber /\ PosLess(Pos(e), Pos(l))

\* C18: when the transaction of a handled log does not commit, because the
\* handler threw or the database failed, the persisted store and the
\* in-memory tree are as they were before the log was handled.
C18_NoPartialState ==
    [][ (Handled /\ commits' = commits) => (store' = store /\ gst' = gst) ]_vars

\* the positions a log can have
LogPositions == (1..MaxBlock) \X (0..(MaxLogs - 1)) \X (0..(MaxLogs - 1))

\* the transaction of the log at p, whose handler does not throw, failed and
\* has not committed since
StoreFailed(p) ==
    /\ pc = "dead"
    /\ invoked # <<>>
    /\ Last(invoked) = p
    /\ ~Committed(p)
    /\ \E e \in Range(chain) : Pos(e) = p /\ e.topic \in KnownTopics

\* C19: a log whose transaction failed in the database is committed in the
\* end: the Synchronizer keeps running and handles it again.
C19_RetryAfterStoreError ==
    \A p \in LogPositions : StoreFailed(p) ~> Committed(p)

\* C20: once a stop is requested the Synchronizer hands no further log to a
\* handler and starts no further poll.
C20_StopHonoured ==
    [][ stopRequested => (~Handled /\ ~(pc = "loop" /\ pc' = "batch")) ]_vars

\* the running instance committed the transaction of the next log of the batch
HandledAndCommitted == Handled /\ Len(commits') = Len(commits) + 1

\* C21: handling an attestation with no fromProof whose toProof is a valid
\* Proof row makes getAttestations of its epoch key grow by one row, that of
\* the event, and getAttestations of a key is the Attestation rows of the key
\* with valid = true.
C21_GetAttestationsGrowsByOne ==
    [][ (/\ HandledAndCommitted
         /\ Head(batch).topic = "AttestationSubmitted"
         /\ Head(batch).fromProofIndex = 0
         /\ \E p \in Range(store.Proof) :
               /\ p.epoch = Head(batch).epoch
               /\ p.index = Head(batch).toProofIndex
               /\ p.valid)
        => LET k == Head(batch).epochKey
           IN  /\ getAttestations(store', k) =
                      Append(getAttestations(store, k),
                             [AttestationRow(Head(batch)) EXCEPT !.valid = "true"])
               /\ Range(getAttestations(store', k)) =
                      {a \in Range(store'.Attestation) :
                          a.epochKey = k /\ a.valid = "true"} ]_vars

\* the EpochEnded logs whose transaction committed, in the order of the commits
EpochEndsCommitted ==
    SelectSeq(commits, LAMBDA p :
        \E e \in Range(chain) : Pos(e) = p /\ e.topic = "EpochEnded")

\* the epoch the log at position p ended
EpochEndedAt(p) == (CHOOSE e \in Range(chain) : Pos(e) = p).epoch

\* the transaction of every log of the mined blocks has committed and the
\* poll that handled the last of them is complete
Drained ==
    /\ pc = "loop"
    /\ latestProcessed = head
    /\ \A e \in Range(chain) : e.blockNumber <= head => Committed(Pos(e))

\* Unirep.currentEpoch after the logs of the mined blocks
MinedEpoch == ChainEpoch(SelectSeq(chain, LAMBDA e : e.blockNumber <= head))

\* C22: loadCurrentEpoch gives epoch 1 while no EpochEnded log has committed
\* and e + 1 once EpochEnded(e) is the last EpochEnded log that committed;
\* when the log is drained it gives the current epoch of the chain.
C22_CurrentEpochFollowsChain ==
    /\ loadCurrentEpoch(store).number =
           (IF EpochEndsCommitted = <<>> THEN 1
            ELSE EpochEndedAt(Last(EpochEndsCommitted)) + 1)
    /\ Drained => loadCurrentEpoch(store).number = MinedEpoch

\* C22 witness: the log is drained after two epochs ended, the second in a
\* later poll than the first, and a signup went into the first epoch
C22_Witness ==
    /\ Drained
    /\ Len(EpochEndsCommitted) = 2
    /\ EpochEndsCommitted[1][1] # EpochEndsCommitted[2][1]
    /\ loadCurrentEpoch(store).number = 3
    /\ store.GSTLeaf # <<>>

\* C23: the index of an Attestation row is that of no other row and is lower
\* than the index of every attestation of a later log, so that the
\* attestations of an epoch key sorted by ascending index are in the order of
\* their logs.
C23_AttestationIndexOrdered ==
    /\ \A a, b \in Range(store.Attestation) :
          PosLess(a.log, b.log) => a.index < b.index
    /\ \A k \in {r.epochKey : r \in Range(store.Attestation)} :
          LET rows == FindMany(store.Attestation, [epochKey |-> k])
          IN  OrderByIndex(rows) = rows

\* C24: handling an attestation changes the valid field of no Attestation
\* row that was there before: a row recorded invalid or left unset does not
\* become valid, a valid row does not become invalid.
C24_OtherAttestationsUntouched ==
    [][ (HandledAndCommitted /\ Head(batch).topic = "AttestationSubmitted")
        => \A i \in 1..Len(store.Attestation) :
              store'.Attestation[i].valid = store.Attestation[i].valid ]_vars

\* the Proof row of epoch and index in st, the first if there are several
ProofOf(st, epoch, index) ==
    st.Proof[CHOOSE i \in 1..Len(st.Proof) :
                /\ st.Proof[i].epoch = epoch /\ st.Proof[i].index = index
                /\ \A j \in 1..(i - 1) :
                      ~(st.Proof[j].epoch = epoch /\ st.Proof[j].index = index)]

\* the transaction of an attestation with a fromProof committed, and the
\* toProof of the attestation is a valid Proof row
AttestationFromProofCommitted ==
    /\ HandledAndCommitted
    /\ Head(batch).topic = "AttestationSubmitted"
    /\ Head(batch).fromProofIndex # 0
    /\ ProofOf(store, Head(batch).epoch, Head(batch).toProofIndex).valid

\* C25: when the fromProof of an attestation is invalid or spent, the row
\* created for the attestation is marked valid = false, no EpochKey row is
\* written and no Proof row changes; otherwise the fromProof is marked spent.
C25_SpentFromProofRejects ==
    [][ AttestationFromProofCommitted =>
          LET e    == Head(batch)
              from == ProofOf(store, e.epoch, e.fromProofIndex)
          IN  IF ~from.valid \/ from.spent
              THEN /\ Last(store'.Attestation).log = Pos(e)
                   /\ Last(store'.Attestation).valid = "false"
                   /\ store'.EpochKey = store.EpochKey
                   /\ store'.Proof = store.Proof
              ELSE ProofOf(store', e.epoch, e.fromProofIndex).spent ]_vars

\* C26: of the Attestation rows with valid = true at most one comes from a
\* log with a given non-zero fromProofIndex, and the spent flag of a Proof
\* row, once true, stays true.
C26_ProofConsumedOnce ==
    [][ /\ \A a, b \in Range(store'.Attestation) :
              (/\ a.valid = "true" /\ b.valid = "true"
               /\ a.fromProofIndex # 0
               /\ a.fromProofIndex = b.fromProofIndex) => a.log = b.log
        /\ \A i \in 1..Len(store.Proof) :
              store.Proof[i].spent => store'.Proof[i].spent ]_vars

\* C27: a UserSignedUp, AttestationSubmitted or UserStateTransitioned log
\* whose epoch is not the current epoch writes no GSTLeaf, GSTRoot,
\* Attestation, EpochKey or Nullifier row and leaves the in-memory tree as it
\* is; every GSTLeaf row is inserted with the epoch that is current then.
C27_StaleEpochRejected ==
    [][ /\ (/\ Handled
            /\ Head(batch).topic \in {"UserSignedUp", "AttestationSubmitted",
                                      "UserStateTransitioned"}
            /\ Head(batch).epoch # loadCurrentEpoch(store).number)
           => /\ store'.GSTLeaf = store.GSTLeaf
              /\ store'.GSTRoot = store.GSTRoot
              /\ store'.Attestation = store.Attestation
              /\ store'.EpochKey = store.EpochKey
              /\ store'.Nullifier = store.Nullifier
              /\ gst' = gst
        /\ Len(store'.GSTLeaf) > Len(store.GSTLeaf)
           => Last(store'.GSTLeaf).epoch = loadCurrentEpoch(store).number ]_vars

\* the log of the user state transition proof the UserStateTransitioned log
\* e names
USTProofLog(e) ==
    CHOOSE l \in Range(chain) :
        l.topic = "IndexedUserStateTransitionProof" /\ l.proofIndex = e.proofIndex

\* the Proof rows of st of the kind `name` with the index `index`
ProofRows(st, name, index) ==
    {r \in Range(st.Proof) : r.event = name /\ r.index = index}

\* every Proof row of st named records[i] as a processed attestations proof
\* is valid and takes the blinded user state the proof before it gave, the
\* start transition proof start for i = 2
ChainOfProofs(st, records, start) ==
    \A i \in 2..Len(records) :
        /\ ProofRows(st, "IndexedProcessedAttestationsProof", records[i]) # {}
        /\ \A r \in ProofRows(st, "IndexedProcessedAttestationsProof", records[i]) :
              /\ r.valid
              /\ IF i = 2 THEN r.inputBlindedUserState = start.blindedUserState
                 ELSE \A q \in ProofRows(st, "IndexedProcessedAttestationsProof",
                                          records[i - 1]) :
                          r.inputBlindedUserState = q.outputBlindedUserState

\* the conditions of the claim for the UserStateTransitioned log e on the
\* store st
TransitionChecksOut(e, st) ==
    LET l       == USTProofLog(e)
        args    == l.proof
        records == l.proofIndexRecords
    IN  /\ ProofRows(st, "IndexedUserStateTransitionProof", e.proofIndex) # {}
        /\ \A t \in ProofRows(st, "IndexedUserStateTransitionProof", e.proofIndex) :
              /\ t.valid
              /\ ProofRows(st, "IndexedStartedTransitionProof", records[1]) # {}
              /\ \A sp \in ProofRows(st, "IndexedStartedTransitionProof", records[1]) :
                    /\ sp.valid
                    /\ sp.blindedUserState = t.blindedUserState
                    /\ sp.globalStateTree = t.globalStateTree
                    /\ ChainOfProofs(st, records, sp)
        /\ \A i \in 1..Len(args.blindedHashChains) :
              \E r \in Range(st.Proof) :
                  /\ r.index \in Range(records)
                  /\ r.event \in {"IndexedStartedTransitionProof",
                                  "IndexedProcessedAttestationsProof"}
                  /\ r.outputBlindedHashChain = args.blindedHashChains[i]
        /\ RootPersisted(st, args.fromGlobalStateTree, args.transitionFromEpoch)
        /\ \E r \in Range(st.Epoch) :
              /\ r.number = args.transitionFromEpoch
              /\ r.epochRoot = <<args.fromEpochTree>>
        /\ ~Confirmed(st, args.epkNullifiers)

\* C28: a UserStateTransitioned log inserts a GSTLeaf row only if its user
\* state transition proof is valid, the start transition proof it names
\* first is valid and has its blinded user state and its tree root, the
\* processed attestations proofs it names are valid and chained by their
\* blinded user states, each of its blinded hash chains is the output of a
\* proof it names, its tree root and epoch tree root are those persisted for
\* the epoch it starts from, and none of its non-zero nullifiers is confirmed.
C28_TransitionAcceptedOnlyIfChecked ==
    [][ (/\ Handled
         /\ Head(batch).topic = "UserStateTransitioned"
         /\ Len(store'.GSTLeaf) > Len(store.GSTLeaf))
        => TransitionChecksOut(Head(batch), store) ]_vars

\* C28 witness: of two transitions one was accepted and left its leaf and its
\* nullifier, the other was turned down
C28_Witness ==
    /\ Cardinality(CommittedLogs({"UserStateTransitioned"})) = 2
    /\ Len(LeavesOfEpoch(2)) = 1
    /\ Len(store.Nullifier) = 1

\* C29: a UserStateTransitioned log whose transition fails one of the checks
\* is a no-op without an exception: no row but the cursor changes, the tree
\* stays as it is, the cursor moves to the log and the loop goes on.
C29_FailedTransitionIsNoOp ==
    [][ (/\ Handled
         /\ Head(batch).topic = "UserStateTransitioned"
         /\ ~TransitionChecksOut(Head(batch), store))
        => /\ WithoutState(store') = WithoutState(store)
           /\ gst' = gst
           /\ pc' # "dead"
           /\ Cursor(store') = Pos(Head(batch)) ]_vars

\* the committed log that wrote the GSTLeaf row r
LogOfLeaf(r) ==
    CHOOSE l \in CommittedLogs({"UserSignedUp", "UserStateTransitioned"}) :
        TxHash(l) = r.transactionHash

RECURSIVE FoldAscending(_)
FoldAscending(rows) ==
    IF rows = {} THEN <<>>
    ELSE LET top == CHOOSE a \in rows : \A b \in rows : b.index <= a.index
         IN  <<top.hash>> \o FoldAscending(rows \ {top})

\* the epoch tree the claim describes for epoch e on the store st, as the
\* set of its leaves that are not the default leaf
ExpectedEpochTree(st, e) ==
    {<<k, <<1>> \o FoldAscending({a \in Range(st.Attestation) :
                      a.epoch = e /\ a.epochKey = k /\ a.valid = "true"})>> :
        k \in {r.key : r \in {q \in Range(st.EpochKey) : q.epoch = e}}}

\* the epoch keys of epoch e none of whose attestations names a valid toProof
OnlyInvalidToProofs(st, e) ==
    {a.epochKey : a \in {b \in Range(st.Attestation) : b.epoch = e}}
        \ {a.epochKey : a \in {b \in Range(st.Attestation) :
               /\ b.epoch = e
               /\ \E p \in Range(st.Proof) :
                     p.epoch = e /\ p.index = b.proofIndex /\ p.valid}}

\* C31: the epochRoot persisted by EpochEnded(e) is the root of the sparse
\* tree that maps the epoch keys with an EpochKey row of e, and no other key,
\* to H(1, hc), hc being the fold of the hashes of the key's attestations of e
\* with valid = true in ascending index, from 0; an epoch key that only got
\* attestations of invalid proofs has no leaf in the tree.
C31_EpochRootIsFoldOfValid ==
    [][ (HandledAndCommitted /\ Head(batch).topic = "EpochEnded")
        => LET e == Head(batch).epoch
           IN  /\ \E r \in Range(store'.Epoch) : r.number = e
               /\ \A r \in Range(store'.Epoch) :
                     r.number = e =>
                        /\ r.sealed
                        /\ r.epochRoot = <<ExpectedEpochTree(store, e)>>
                        /\ \A k \in OnlyInvalidToProofs(store, e) :
                              \A l \in r.epochRoot[1] : l[1] # k ]_vars

\* C31 witness: epoch 1 was sealed with the leaf of epoch key 1 that folds
\* two valid attestations, the first hashed first
C31_Witness ==
    \E r \in Range(store.Epoch) :
        r.number = 1 /\ r.sealed /\ r.epochRoot = <<{<<1, <<1, 2, 1>>>>}>>

\* C32: a reputation proof whose Proof row is persisted with valid = false
\* creates, deletes and changes no Nullifier row.
C32_InvalidProofLeavesNullifiers ==
    [][ (/\ HandledAndCommitted
         /\ Head(batch).topic = "IndexedReputationProof"
         /\ ~Last(store'.Proof).valid)
        => store'.Nullifier = store.Nullifier ]_vars

\* C33: when start() has run setup() on a store, the in-memory tree is the
\* tree rebuilt from the GSTLeaf rows of the current epoch in index order,
\* in the first epoch as in every other, and every GSTRoot row persisted
\* afterwards is a root of the tree of the GSTLeaf rows of its epoch.
C33_SetupRestoresTree ==
    [][ /\ (pc = "init" /\ pc' = "loop") =>
              IMTRoot(gst') = genGSTree(store', loadCurrentEpoch(store').number)
        /\ Len(store'.GSTRoot) > Len(store.GSTRoot) =>
              Last(store'.GSTRoot).root =
                  genGSTree(store', Last(store'.GSTRoot).epoch) ]_vars

\* the transaction of every log of the mined blocks has committed
AllMinedCommitted ==
    \A e \in Range(chain) : e.blockNumber <= head => Committed(Pos(e))

\* C34: when the head of the chain stops at block n, every log of the blocks
\* 1..n is committed in the end and latestCompleteBlock becomes n, and stays.
C34_EventuallyCaughtUp ==
    \A n \in 0..MaxBlock :
        <>[](head = n) =>
            <>[](AllMinedCommitted /\ latestCompleteBlock(store) = n)

\* C34 witness: the head is at the last block, two polls have committed the
\* logs of two blocks and latestCompleteBlock is the head
C34_Witness ==
    /\ head = MaxBlock
    /\ AllMinedCommitted
    /\ latestCompleteBlock(store) = head
    /\ \E p, q \in Range(commits) : p[1] = 1 /\ q[1] = MaxBlock
    /\ \E i \in 1..Len(chain) : chain[i].blockNumber = 1 /\ i >= 2

\* C35: whenever latestCompleteBlock = n is persisted, the transaction of
\* every log of a block <= n has committed and the persisted cursor is at or
\* after that log; and latestCompleteBlock changes only in the step that
\* follows a batch drained without a throw, to the high-water mark newLatest
\* of that batch.
C35_CompleteBlockIsComplete ==
    /\ [](\A e \in Range(chain) :
            e.blockNumber <= latestCompleteBlock(store)
                => Committed(Pos(e)) /\ ~PosLess(Cursor(store), Pos(e)))
    /\ [][ latestCompleteBlock(store') # latestCompleteBlock(store)
             => /\ pc = "batch" /\ batch = <<>> /\ pc' = "loop"
                /\ latestCompleteBlock(store') = newLatest
                /\ \A e \in Range(chain) :
                      e.blockNumber <= newLatest => Committed(Pos(e)) ]_vars

\* C35 witness: latestCompleteBlock stands at the last block after two
\* batches, with committed logs in the first block and in the last
C35_Witness ==
    /\ latestCompleteBlock(store) = MaxBlock
    /\ pc = "loop"
    /\ latestProcessed = MaxBlock
    /\ \E i, j \in 1..Len(commits) :
          i < j /\ commits[i][1] = 1 /\ commits[j][1] = MaxBlock
    /\ invoked # <<>> /\ Last(invoked)[1] = MaxBlock

\* the logs of the blocks from..to whose transaction has not committed
Uncommitted(from, to) ==
    {e \in Range(chain) : from <= e.blockNumber /\ e.blockNumber <= to
                            /\ ~Committed(Pos(e))}

\* C36: in one Synchronizer latestBlock never decreases, and a step that
\* raises it after startDaemon began (a block notification, also in the middle
\* of a batch) changes nothing else, in memory or in the store; a poll takes
\* the snapshot newLatest = latestBlock > latestProcessed and its batch holds
\* the uncommitted logs of the blocks latestProcessed + 1 .. newLatest, the
\* end of the batch moves latestProcessed to that snapshot; so no log of a
\* block <= latestProcessed is left uncommitted and no log is handled twice.
C36_NotificationsHarmless ==
    /\ [][ pc' # "init" =>
            /\ latestBlock' >= latestBlock
            /\ (latestBlock' # latestBlock /\ pc # "init") =>
                  UNCHANGED <<chain, head, store, gst, pc, latestProcessed,
                              newLatest, batch, invoked, commits, emitted>>
            /\ (pc = "loop" /\ pc' = "batch") =>
                  /\ newLatest' = latestBlock /\ newLatest' > latestProcessed
                  /\ Range(batch') = Uncommitted(latestProcessed + 1, newLatest')
            /\ (pc = "batch" /\ pc' = "loop") => latestProcessed' = newLatest
          ]_vars
    /\ [](/\ \A e \in Range(chain) :
                e.blockNumber <= latestProcessed => Committed(Pos(e))
          /\ \A i, j \in 1..Len(invoked) : i < j => invoked[i] # invoked[j]
          /\ \A i, j \in 1..Len(commits) : i < j => commits[i] # commits[j])

\* C36 witness: in the middle of a batch, one log handled and one to go, a
\* notification raised latestBlock over the snapshot, to a block with a log
C36_Witness ==
    /\ pc = "batch"
    /\ batch # <<>>
    /\ invoked # <<>>
    /\ latestBlock > newLatest
    /\ \E e \in Range(chain) : e.blockNumber = latestBlock

\* the epochs whose Epoch row is sealed
SealedEpochs(st) == {r.number : r \in {q \in Range(st.Epoch) : q.sealed}}

\* C37: once epoch e is sealed no step creates or changes an Attestation row
\* or an EpochKey row of e, nor the Epoch row of e (sealed, epochRoot); the
\* handler of an attestation of a sealed epoch throws and nothing is written.
C37_SealedEpochFrozen ==
    [][ /\ \A e \in SealedEpochs(store) :
              /\ FindMany(store'.Attestation, [epoch |-> e])
                    = FindMany(store.Attestation, [epoch |-> e])
              /\ FindMany(store'.EpochKey, [epoch |-> e])
                    = FindMany(store.EpochKey, [epoch |-> e])
              /\ FindMany(store'.Epoch, [number |-> e])
                    = FindMany(store.Epoch, [number |-> e])
        /\ (/\ Handled
            /\ Head(batch).topic = "AttestationSubmitted"
            /\ Head(batch).epoch \in SealedEpochs(store))
              => store' = store /\ commits' = commits /\ pc' = "dead" ]_vars

\* C37 witness: epoch 1 was sealed over an accepted attestation, and the
\* handler of a later attestation of epoch 1 has thrown
C37_Witness ==
    /\ 1 \in SealedEpochs(store)
    /\ \E a \in Range(store.Attestation) : a.epoch = 1 /\ a.valid = "true"
    /\ \E k \in Range(store.EpochKey) : k.epoch = 1
    /\ pc = "dead"
    /\ invoked # <<>>
    /\ \E e \in Range(chain) :
          /\ Pos(e) = Last(invoked)
          /\ e.topic = "AttestationSubmitted" /\ e.epoch = 1
          /\ ~Committed(Pos(e))
          /\ \A a \in Range(store.Attestation) : a.log # Pos(e)

\* C38: the transaction of EpochEnded(e) leaves an empty in-memory tree, and
\* the first leaf committed in an epoch after the first gets index 0 and a
\* GSTRoot row whose root is that of the tree of this one leaf, which is the
\* in-memory tree then.
C38_EpochEndResetsTree ==
    [][ /\ (HandledAndCommitted /\ Head(batch).topic = "EpochEnded")
              => gst' = <<>>
        /\ (/\ HandledAndCommitted
            /\ Len(store'.GSTLeaf) = Len(store.GSTLeaf) + 1
            /\ Last(store'.GSTLeaf).epoch > 1
            /\ Count(store.GSTLeaf, [epoch |-> Last(store'.GSTLeaf).epoch]) = 0)
              => /\ Last(store'.GSTLeaf).index = 0
                 /\ Len(store'.GSTRoot) = Len(store.GSTRoot) + 1
                 /\ Last(store'.GSTRoot).epoch = Last(store'.GSTLeaf).epoch
                 /\ Last(store'.GSTRoot).root
                       = IMTRoot(<<Last(store'.GSTLeaf).hash>>)
                 /\ gst' = <<Last(store'.GSTLeaf).hash>> ]_vars

\* C38 witness: epoch 1 ended with a leaf in its tree, and the first leaf of
\* epoch 2 is stored with index 0 and the root of a tree of one leaf
C38_Witness ==
    /\ Count(store.GSTLeaf, [epoch |-> 1]) >= 1
    /\ 1 \in SealedEpochs(store)
    /\ \E l \in Range(store.GSTLeaf) :
          /\ l.epoch = 2 /\ l.index = 0
          /\ \E r \in Range(store.GSTRoot) :
                r.epoch = 2 /\ r.root = IMTRoot(<<l.hash>>)
    /\ gst # <<>>

\* the bits lo..hi of a word, as a number
Bits(word, lo, hi) == {i - lo : i \in {j \in word : lo <= j /\ j <= hi}}

\* the word that holds the five values in the layout of the control
PackEpochKeyControl(nonce, epoch, attesterId, revealNonce, chainId) ==
    nonce \cup {i + 8 : i \in epoch} \cup {i + 56 : i \in attesterId}
          \cup (IF revealNonce THEN {216} ELSE {}) \cup {i + 217 : i \in chainId}

\* C39: decodeEpochKeyControl returns nonce = bits 0-7, epoch = bits 8-55,
\* attesterId = bits 56-215, revealNonce = bit 216 and chainId = bits 217-252
\* of the word; the word that packs five values of these widths in this
\* layout (each with its lowest and its highest bit set or not) decodes to
\* the five values; and shiftAndParse(data, s, w) is
\* (data >> s) mod 2^w, the w bits of data from bit s up.
C39_EpochKeyControlLayout ==
    /\ returned.fn = "decodeEpochKeyControl" =>
          /\ returned.nonce = Bits(calldata, 0, 7)
          /\ returned.epoch = Bits(calldata, 8, 55)
          /\ returned.attesterId = Bits(calldata, 56, 215)
          /\ returned.revealNonce = (216 \in calldata)
          /\ returned.chainId = Bits(calldata, 217, 252)
          /\ \A nonce \in SUBSET {0, 7}, epoch \in SUBSET {0, 47},
                attesterId \in SUBSET {0, 159}, revealNonce \in BOOLEAN,
                chainId \in SUBSET {0, 35} :
                calldata = PackEpochKeyControl(nonce, epoch, attesterId,
                                               revealNonce, chainId)
                   => /\ returned.nonce = nonce
                      /\ returned.epoch = epoch
                      /\ returned.attesterId = attesterId
                      /\ returned.revealNonce = revealNonce
                      /\ returned.chainId = chainId
    /\ returned.fn = "shiftAndParse" =>
          returned.value = Bits(calldata, returned.shiftBits,
                                returned.shiftBits + returned.variableBits - 1)

\* C39 witness: the word packed from the highest value of every field, which
\* has no bit above bit 252, was decoded to these values
C39_Witness ==
    /\ returned.fn = "decodeEpochKeyControl"
    /\ calldata = PackEpochKeyControl({0, 7}, {0, 47}, {0, 159}, TRUE, {0, 35})
    /\ returned.nonce = {0, 7}
    /\ returned.epoch = {0, 47}
    /\ returned.attesterId = {0, 159}
    /\ returned.revealNonce
    /\ returned.chainId = {0, 35}

====
